---- MODULE Spec2Model ----
(***************************************************************************)
(* A model of mycogeneexplorer: the construction of reaction graphs from a *)
(* genome scale metabolic model (network_analysis/reaction_network.py) and *)
(* the model loader (network_analysis/utils.py).                           *)
(*                                                                         *)
(* Floating point numbers are modelled by records: an integer value, an    *)
(* optional additive 1e-30, the reciprocal of such a sum, infinity or NaN. *)
(* Comparisons follow IEEE 754: every comparison with NaN is false.        *)
(* Rounding is not modelled: fluxes and coefficients are small integers.   *)
(***************************************************************************)
EXTENDS Integers, Sequences, FiniteSets, TLC

VARIABLES
    reversible,        \* rxn.reversibility of every reaction of the model
    coefficient,       \* rxn.get_coefficient(met); 0: met is not in rxn.metabolites
    fva_results,       \* the data frame flux_variability_analysis returns
    pc,                \* "start" before the call, then the call that returned
    reciprocal_weight, \* the argument of the directed construction
    source_df,         \* per metabolite: source_df of that group
    sinks_df,          \* per metabolite: sinks_df of that group
    edge_weight_df,    \* the candidate edges, in production order
    edge_list,         \* what find_[directed_]edges_from_model returns
    raised,            \* the exception the call ended with, or "none"
    graph,             \* the networkx graph returned, or NoGraph
    model_arg,         \* load_cobra_model_from_file: the model argument
    file_type_arg,     \* load_cobra_model_from_file: the file_type argument
    file_type,         \* load_cobra_model_from_file: file_type when the call ended
    loader_called,     \* which cobra.io loader was invoked, or "none"
    metabolic_model,   \* what load_cobra_model_from_file returned
    out_file,          \* write_network: the JSON document in the file, or NoFile
    directed_arg,      \* read_network: the directed argument
    read_graph,        \* the graph read_network returned, or NoGraph
    args,              \* create_metabolic_network.py: the parsed command line
    stdout,            \* the lines printed so far
    exit_status,       \* <<>> while the process runs, then its exit status
    genes,             \* parse_list, translate_list: the genes argument, a str
    locus_list,        \* the list read from locus_list.json
    uniprot_to_locus,  \* the dict read from uniprot_to_locus.json
    names_to_locus,    \* the dict read from names_to_locus.json
    genes_list,        \* what parse_list returned
    final_list,        \* what translate_list returned
    bounds,            \* rxn.bounds of every reaction of the cobra model
    gpr,               \* rxn.gpr of every reaction: the sets of genes of which one must be whole
    irr_model,         \* irr_model when create_irreversible_model ended, or None
    returned,          \* what create_irreversible_model or gene_knockdown returned, or None
    kd_args,           \* gene_knockdown: its arguments
    kd_dict,           \* gene_knockdown: kd_dict when the call ended
    kd_trace,          \* gene_knockdown: the upper bounds of irr_model around every with block
    ko_args,           \* find_metabolite_gene_essentiality: the metabolites of the model and the genes argument
    ko_model,          \* find_metabolite_gene_essentiality: metabolic_model when the call ended
    essential,         \* find_metabolite_gene_essentiality: the frame essential when the call ended
    essentiality_dict, \* find_metabolite_gene_essentiality: essentiality_dict when the call ended
    ko_trace,          \* find_metabolite_gene_essentiality: metabolic_model at every call of single_gene_deletion
    verbose,           \* find_edges_from_model and find_directed_edges_from_model: the argument verbose
    bars               \* the progress bars the call created, as they are when it ends

vars == <<reversible, coefficient, fva_results, pc, reciprocal_weight, source_df,
          sinks_df, edge_weight_df, edge_list, raised, graph, model_arg,
          file_type_arg, file_type, loader_called, metabolic_model,
          out_file, directed_arg, read_graph,
          args, stdout, exit_status,
          genes, locus_list, uniprot_to_locus, names_to_locus, genes_list, final_list,
          bounds, gpr, irr_model, returned, kd_args, kd_dict, kd_trace,
          ko_args, ko_model, essential, essentiality_dict, ko_trace,
          verbose, bars>>

netVars == <<reversible, coefficient, fva_results, reciprocal_weight, source_df,
             sinks_df, edge_weight_df, edge_list, graph>>

loadVars == <<model_arg, file_type_arg, file_type, loader_called, metabolic_model>>

fileVars == <<out_file, directed_arg, read_graph>>

mainVars == <<args, stdout, exit_status>>

geneVars == <<genes, locus_list, uniprot_to_locus, names_to_locus, genes_list, final_list>>

fbaVars == <<bounds, gpr, irr_model, returned, kd_args, kd_dict, kd_trace>>

koVars == <<ko_args, ko_model, essential, essentiality_dict, ko_trace>>

verboseVars == <<verbose, bars>>

----------------------------------------------------------------------------
(* Bounds of the model *)

\* fluxes of the flux variability analysis range over -1..MaxFlux
MaxFlux == 1

\* the stoichiometric coefficients a reaction can have for a metabolite
Coefficients == {-2, -1, 0, 1, 2}

\* model.reactions, in the order of the model (identifiers in sorted order)
Reactions == <<"A", "B">>

\* the metabolite identifiers, in sorted order (the order groupby("met") uses)
Metabolites == <<"M", "N">>

RxnIds == {Reactions[i] : i \in 1..Len(Reactions)}

MetIds == {Metabolites[i] : i \in 1..Len(Metabolites)}

----------------------------------------------------------------------------
(* Sequences *)

RECURSIVE Flatten(_)
Flatten(ss) == IF ss = <<>> THEN <<>> ELSE Head(ss) \o Flatten(Tail(ss))

Range(s) == {s[i] : i \in 1..Len(s)}

\* the position of x in the sequence s (x occurs in s)
IndexOf(s, x) == CHOOSE i \in 1..Len(s) : s[i] = x /\ \A j \in 1..(i - 1) : s[j] # x

----------------------------------------------------------------------------
(* Floating point values *)

Float(n) == [k |-> "num", v |-> n, e |-> 0]

NaN == [k |-> "nan", v |-> 0, e |-> 0]

Inf == [k |-> "inf", v |-> 0, e |-> 0]

IsNaN(x) == x.k = "nan"

\* x < y on two sums v + e * 1e-30
SumLess(x, y) == x.v < y.v \/ (x.v = y.v /\ x.e < y.e)

\* the sign of the sum v + e * 1e-30
SumPositive(x) == x.v > 0 \/ (x.v = 0 /\ x.e > 0)

\* x < y; false when either is NaN
FLess(x, y) ==
    CASE IsNaN(x) \/ IsNaN(y) -> FALSE
      [] x.k = "inf" -> FALSE
      [] y.k = "inf" -> TRUE
      [] x.k = "num" /\ y.k = "num" -> SumLess(x, y)
      [] x.k = "recip" /\ y.k = "recip" ->
            IF SumPositive(x) = SumPositive(y) THEN SumLess(y, x) ELSE SumPositive(y)
      [] OTHER -> FALSE

\* x == y; false when either is NaN
FEq(x, y) == ~IsNaN(x) /\ ~IsNaN(y) /\ x = y

\* x * y on plain numbers
FMul(x, y) == IF IsNaN(x) \/ IsNaN(y) THEN NaN ELSE Float(x.v * y.v)

\* np.negative
FNeg(x) == IF IsNaN(x) THEN NaN ELSE Float(-x.v)

\* x + 10^-30 on a plain number
FAddEps(x) == IF IsNaN(x) THEN NaN ELSE [k |-> "num", v |-> x.v, e |-> 1]

\* np.reciprocal of a sum v + e * 1e-30: 1/0.0 is inf (numpy warns, it does not raise)
Reciprocal(x) ==
    CASE IsNaN(x) -> NaN
      [] x.v = 0 /\ x.e = 0 -> Inf
      [] OTHER -> [k |-> "recip", v |-> x.v, e |-> x.e]

\* Series.min() / Series.max(): NaN entries are skipped, NaN when nothing is left
SeriesMin(ws) ==
    LET nums == {i \in 1..Len(ws) : ~IsNaN(ws[i])}
    IN  IF nums = {} THEN NaN
        ELSE ws[CHOOSE i \in nums : \A j \in nums : ~FLess(ws[j], ws[i])]

SeriesMax(ws) ==
    LET nums == {i \in 1..Len(ws) : ~IsNaN(ws[i])}
    IN  IF nums = {} THEN NaN
        ELSE ws[CHOOSE i \in nums : \A j \in nums : ~FLess(ws[i], ws[j])]

----------------------------------------------------------------------------
(* find_directed_edges_from_model: the reaction metabolite data frame *)

\* the integer 0 a whole-row assignment writes into the string columns; it is no
\* reaction identifier and no metabolite identifier (those are str)
Zero == "0"

\* the rows one reaction adds, one per metabolite of rxn.metabolites
RxnRows(rxn, fva) ==
    LET mets == SelectSeq(Metabolites, LAMBDA m : coefficient[rxn][m] # 0)
    IN  [i \in 1..Len(mets) |->
            [rxn |-> rxn, met |-> mets[i], reversible |-> reversible[rxn],
             coefficient |-> Float(coefficient[rxn][mets[i]]),
             flux_max |-> fva[rxn].maximum,
             flux_min |-> fva[rxn].minimum]]

RxnMetDf(fva) == Flatten([i \in 1..Len(Reactions) |-> RxnRows(Reactions[i], fva)])

\* the keys of groupby("met"), in sorted order
GroupKeys(df) == SelectSeq(Metabolites, LAMBDA m : \E i \in 1..Len(df) : df[i].met = m)

Group(df, m) == SelectSeq(df, LAMBDA row : row.met = m)

\* .drop([...], axis=1).rename({col: "flux"}, axis=1)
RenameFluxMax(df) ==
    [i \in 1..Len(df) |-> [rxn |-> df[i].rxn, met |-> df[i].met,
                           coefficient |-> df[i].coefficient, flux |-> df[i].flux_max]]

RenameFluxMin(df) ==
    [i \in 1..Len(df) |-> [rxn |-> df[i].rxn, met |-> df[i].met,
                           coefficient |-> df[i].coefficient, flux |-> df[i].flux_min]]

\* df[col] = np.negative(df[col]) for coefficient and flux
Negated(df) ==
    [i \in 1..Len(df) |-> [df[i] EXCEPT !.coefficient = FNeg(@), !.flux = FNeg(@)]]

\* df.loc[df["flux"] < 0] = 0: every column of the selected rows becomes 0
ClampNegativeFlux(df) ==
    [i \in 1..Len(df) |->
        IF FLess(df[i].flux, Float(0))
        THEN [rxn |-> Zero, met |-> Zero, coefficient |-> Float(0), flux |-> Float(0)]
        ELSE df[i]]

IsPos(x) == FLess(Float(0), x)

IsNeg(x) == FLess(x, Float(0))

SourcesIrreversibleDf(df) ==
    ClampNegativeFlux(RenameFluxMax(
        SelectSeq(df, LAMBDA r : ~r.reversible /\ IsPos(r.coefficient))))

SinksIrreversibleDf(df) ==
    RenameFluxMax(SelectSeq(df, LAMBDA r : ~r.reversible /\ IsNeg(r.coefficient)))

ReversibleSourcePosCoefDf(df) ==
    RenameFluxMax(SelectSeq(df,
        LAMBDA r : r.reversible /\ IsPos(r.coefficient) /\ IsPos(r.flux_max)))

\* the reverse branch without the change of sign
ReversibleSourceNegCoefDfNotNegated(df) ==
    RenameFluxMin(SelectSeq(df,
        LAMBDA r : r.reversible /\ IsNeg(r.coefficient) /\ IsNeg(r.flux_min)))

ReversibleSourceNegCoefDf(df) ==
    Negated(RenameFluxMin(SelectSeq(df,
        LAMBDA r : r.reversible /\ IsNeg(r.coefficient) /\ IsNeg(r.flux_min))))

\* the reverse sink branch selected on a flux minimum that is not positive
ReversibleSinkPosCoefDfMinNotPositive(df) ==
    Negated(RenameFluxMin(SelectSeq(df,
        LAMBDA r : r.reversible /\ IsPos(r.coefficient) /\ ~IsPos(r.flux_min))))

ReversibleSinkPosCoefDf(df) ==
    Negated(RenameFluxMin(SelectSeq(df,
        LAMBDA r : r.reversible /\ IsPos(r.coefficient) /\ IsNeg(r.flux_min))))

ReversibleSinkNegCoefDf(df) ==
    RenameFluxMax(SelectSeq(df,
        LAMBDA r : r.reversible /\ IsNeg(r.coefficient) /\ IsPos(r.flux_max)))

SourceDf(df) ==
    SourcesIrreversibleDf(df) \o ReversibleSourcePosCoefDf(df)
        \o ReversibleSourceNegCoefDf(df)

SinksDf(df) ==
    SinksIrreversibleDf(df) \o ReversibleSinkPosCoefDf(df) \o ReversibleSinkNegCoefDf(df)

----------------------------------------------------------------------------
(* find_directed_edges_from_model: the candidate edges *)

FirstRowProduct(sdf, source) == FMul(sdf[1].flux, sdf[1].coefficient)

\* (source_df.loc[source_df["rxn"] == source, "flux"] *
\*  source_df.loc[source_df["rxn"] == source, "coefficient"]).values[0]
SourceProduct(sdf, source) ==
    LET rows == SelectSeq(sdf, LAMBDA r : r.rxn = source)
    IN  FMul(rows[1].flux, rows[1].coefficient)

ReciprocalWeightNoEps(p) == Reciprocal(p)

\* np.reciprocal(product + np.power(10., -30))
ReciprocalWeight(p) == Reciprocal(FAddEps(p))

EdgeWeight(sdf, source, recip) ==
    IF recip THEN ReciprocalWeight(SourceProduct(sdf, source))
    ELSE SourceProduct(sdf, source)

GroupCandidatesZip(m, sdf, kdf, recip) ==
    LET n == IF Len(sdf) < Len(kdf) THEN Len(sdf) ELSE Len(kdf)
    IN  [i \in 1..n |->
            [source |-> sdf[i].rxn, sink |-> kdf[i].rxn, metabolite |-> m,
             weight |-> FMul(sdf[i].flux, sdf[i].coefficient)]]

\* itertools.product(source_df["rxn"], sinks_df["rxn"]) for one metabolite
GroupCandidates(m, sdf, kdf, recip) ==
    Flatten([i \in 1..Len(sdf) |->
        [j \in 1..Len(kdf) |->
            [source |-> sdf[i].rxn, sink |-> kdf[j].rxn, metabolite |-> m,
             weight |-> EdgeWeight(sdf, sdf[i].rxn, recip)]]])

\* edge_weight_df: the candidates of every metabolite group, in groupby order;
\* sdfs and kdfs hold source_df and sinks_df of every group
EdgeWeightDf(df, sdfs, kdfs, recip) ==
    LET keys == GroupKeys(df)
    IN  Flatten([g \in 1..Len(keys) |->
            GroupCandidates(keys[g], sdfs[keys[g]], kdfs[keys[g]], recip)])

----------------------------------------------------------------------------
(* find_directed_edges_from_model: resolving the candidates of one pair *)

\* the identifiers a source or sink column can hold, in the order groupby sorts
\* mixed keys: numbers before strings
SortedKeys == <<Zero>> \o Reactions

\* the keys of groupby(["source", "sink"]), in sorted order
PairKeys(ewdf) ==
    SelectSeq(
        Flatten([i \in 1..Len(SortedKeys) |->
                    [j \in 1..Len(SortedKeys) |-> <<SortedKeys[i], SortedKeys[j]>>]]),
        LAMBDA p : \E c \in 1..Len(ewdf) : ewdf[c].source = p[1] /\ ewdf[c].sink = p[2])

PairGroup(ewdf, p) == SelectSeq(ewdf, LAMBDA c : c.source = p[1] /\ c.sink = p[2])

Weights(df) == [i \in 1..Len(df) |-> df[i].weight]

KeepEveryPair(source, sink) == TRUE

\* if source != sink
KeepPair(source, sink) == source # sink

\* the smallest weight in both modes
BestAlwaysMin(df, recip) == SeriesMin(Weights(df))

BestAlwaysMax(df, recip) == SeriesMax(Weights(df))

\* df["weight"].min() with reciprocal weights, df["weight"].max() without
Best(df, recip) == IF recip THEN SeriesMin(Weights(df)) ELSE SeriesMax(Weights(df))

\* df.loc[df["weight"] == best]
BestRows(df, recip) == SelectSeq(df, LAMBDA c : FEq(c.weight, Best(df, recip)))

LastRow(rows) == rows[Len(rows)]

\* rows.iloc[0]
FirstRow(rows) == rows[1]

\* the rows the edge of a pair is read from: the group itself when it has one row
ChosenRows(df, recip) == IF Len(df) = 1 THEN df ELSE BestRows(df, recip)

\* iloc[0] of an empty selection raises IndexError
GroupRaises(df, recip) == ChosenRows(df, recip) = <<>>

ResolvedEdge(df, recip) ==
    LET row == FirstRow(ChosenRows(df, recip))
    IN  [source |-> df[1].source, sink |-> df[1].sink,
         weight |-> row.weight, metabolite |-> row.metabolite]

\* the pairs the loop appends an edge for
KeptPairs(ewdf) == SelectSeq(PairKeys(ewdf), LAMBDA p : KeepPair(p[1], p[2]))

ResolveRaises(ewdf, recip) ==
    \E i \in 1..Len(KeptPairs(ewdf)) : GroupRaises(PairGroup(ewdf, KeptPairs(ewdf)[i]), recip)

ResolvedEdges(ewdf, recip) ==
    LET keys == KeptPairs(ewdf)
    IN  [i \in 1..Len(keys) |-> ResolvedEdge(PairGroup(ewdf, keys[i]), recip)]

----------------------------------------------------------------------------
(* find_edges_from_model (undirected) *)

\* the rxn and met columns of the undirected construction's data frame
RxnMetPairs ==
    Flatten([i \in 1..Len(Reactions) |->
        LET mets == SelectSeq(Metabolites, LAMBDA m : coefficient[Reactions[i]][m] # 0)
        IN  [j \in 1..Len(mets) |-> [rxn |-> Reactions[i], met |-> mets[j]]]])

\* marks the weight of an edge that carries no weight attribute
NoWeight == [k |-> "absent", v |-> 0, e |-> 0]

\* itertools.combinations(list(item["rxn"]), 2), the pairs with i != j
Combinations(rxns, m) ==
    Flatten([i \in 1..Len(rxns) |->
        [j \in 1..(Len(rxns) - i) |->
            [source |-> rxns[i], sink |-> rxns[i + j], metabolite |-> m,
             weight |-> NoWeight]]])

UndirectedEdges(df) ==
    LET keys == GroupKeys(df)
    IN  Flatten([g \in 1..Len(keys) |->
            SelectSeq(
                Combinations([i \in 1..Len(Group(df, keys[g])) |->
                                 Group(df, keys[g])[i].rxn], keys[g]),
                LAMBDA c : c.source # c.sink)])

----------------------------------------------------------------------------
(* networkx graphs: nodes and links in insertion order *)

EmptyGraph(directed) == [directed |-> directed, nodes |-> <<>>, links |-> <<>>]

NoGraph == EmptyGraph(FALSE)

AddNode(G, n) == IF n \in Range(G.nodes) THEN G ELSE [G EXCEPT !.nodes = Append(@, n)]

SameEdge(G, l, u, v) ==
    \/ l.source = u /\ l.sink = v
    \/ ~G.directed /\ l.source = v /\ l.sink = u

\* a multigraph's add_edge: every call adds a link of its own
AddEdgeParallel(G, c) ==
    [AddNode(AddNode(G, c.source), c.sink) EXCEPT !.links = Append(@, c)]

\* add_edge(u, v, **attr): both ends become nodes; an edge already present keeps its
\* place and has its attributes updated
AddEdge(G, c) ==
    LET H == AddNode(AddNode(G, c.source), c.sink)
        at == {i \in 1..Len(H.links) : SameEdge(H, H.links[i], c.source, c.sink)}
    IN  IF at = {} THEN [H EXCEPT !.links = Append(@, c)]
        ELSE [H EXCEPT !.links =
                 [i \in 1..Len(@) |->
                     IF i \in at
                     THEN [@[i] EXCEPT !.weight = c.weight, !.metabolite = c.metabolite]
                     ELSE @[i]]]

RECURSIVE AddNodesFrom(_, _)
AddNodesFrom(G, ns) == IF ns = <<>> THEN G ELSE AddNodesFrom(AddNode(G, Head(ns)), Tail(ns))

RECURSIVE AddEdgesFrom(_, _)
AddEdgesFrom(G, es) == IF es = <<>> THEN G ELSE AddEdgesFrom(AddEdge(G, Head(es)), Tail(es))

----------------------------------------------------------------------------
(* write_network and read_network: node_link_data, json and node_link_graph *)

\* no file has been written
NoFile == <<>>

\* G.edges(data=True): a DiGraph reports the out-edges of every node, in node order; a
\* Graph reports an edge at the first of its two ends in node order, that end first
EdgesView(G) ==
    Flatten([i \in 1..Len(G.nodes) |->
        LET n == G.nodes[i]
            seen == {G.nodes[j] : j \in 1..(i - 1)}
            at == IF G.directed
                  THEN SelectSeq(G.links, LAMBDA l : l.source = n)
                  ELSE SelectSeq(G.links, LAMBDA l : /\ n \in {l.source, l.sink}
                                                     /\ {l.source, l.sink} \cap seen = {})
        IN  [k \in 1..Len(at) |->
                [at[k] EXCEPT !.source = n,
                              !.sink = IF at[k].source = n THEN at[k].sink
                                       ELSE at[k].source]]])

\* nx.node_link_data(G): a dict with the directed flag, the nodes and the links
NodeLinkData(G) ==
    [directed |-> G.directed,
     multigraph |-> FALSE,
     nodes |-> [i \in 1..Len(G.nodes) |-> [id |-> G.nodes[i]]],
     links |-> [i \in 1..Len(EdgesView(G)) |->
                   [weight |-> EdgesView(G)[i].weight,
                    metabolite |-> EdgesView(G)[i].metabolite,
                    source |-> EdgesView(G)[i].source,
                    target |-> EdgesView(G)[i].sink]]]

\* the JSON text of a bool
JsonOfBool(b) == [json |-> IF b THEN "true" ELSE "false", value |-> <<>>]

\* the JSON text of a str or of the int 0: a string, or the number 0 without a fraction
JsonOfId(n) ==
    IF n = Zero THEN [json |-> "int", value |-> "0"] ELSE [json |-> "string", value |-> n]

\* the JSON text of a float: NaN and Infinity by name (allow_nan), every other by the
\* digits of float.__repr__, which denote that float and no other; a key the dict does
\* not hold is not written
JsonOfFloat(x) ==
    CASE x.k = "absent" -> [json |-> "absent", value |-> <<>>]
      [] x.k = "nan" -> [json |-> "NaN", value |-> <<>>]
      [] x.k = "inf" -> [json |-> "Infinity", value |-> <<>>]
      [] OTHER -> [json |-> "float", value |-> x]

\* json.dump(data, f): the document written
JsonDump(data) ==
    [directed |-> JsonOfBool(data.directed),
     multigraph |-> JsonOfBool(data.multigraph),
     nodes |-> [i \in 1..Len(data.nodes) |-> [id |-> JsonOfId(data.nodes[i].id)]],
     links |-> [i \in 1..Len(data.links) |->
                   [weight |-> JsonOfFloat(data.links[i].weight),
                    metabolite |-> JsonOfId(data.links[i].metabolite),
                    source |-> JsonOfId(data.links[i].source),
                    target |-> JsonOfId(data.links[i].target)]]]

\* the Python value json.load makes of a JSON text
PyOfJson(t) ==
    CASE t.json = "true" -> TRUE
      [] t.json = "false" -> FALSE
      [] t.json = "int" -> Zero
      [] t.json = "string" -> t.value
      [] t.json = "NaN" -> NaN
      [] t.json = "Infinity" -> Inf
      [] t.json = "float" -> t.value
      [] t.json = "absent" -> NoWeight

\* json.load(f)
JsonLoad(doc) ==
    [directed |-> PyOfJson(doc.directed),
     multigraph |-> PyOfJson(doc.multigraph),
     nodes |-> [i \in 1..Len(doc.nodes) |-> [id |-> PyOfJson(doc.nodes[i].id)]],
     links |-> [i \in 1..Len(doc.links) |->
                   [weight |-> PyOfJson(doc.links[i].weight),
                    metabolite |-> PyOfJson(doc.links[i].metabolite),
                    source |-> PyOfJson(doc.links[i].source),
                    target |-> PyOfJson(doc.links[i].target)]]]

\* data.get(key, default)
DictGet(data, key, default) == IF key \in DOMAIN data THEN data[key] ELSE default

\* a node_link_graph that takes the kind of graph from its argument alone
NodeLinkGraphOfArgument(data, directed) ==
    AddEdgesFrom(
        AddNodesFrom(EmptyGraph(directed),
                     [i \in 1..Len(data.nodes) |-> data.nodes[i].id]),
        [i \in 1..Len(data.links) |->
            [source |-> data.links[i].source, sink |-> data.links[i].target,
             metabolite |-> data.links[i].metabolite, weight |-> data.links[i].weight]])

\* nx.node_link_graph(data, directed=directed): the directed key of the data decides, the
\* argument only when the data has no such key; nodes, then links with their attributes
NodeLinkGraph(data, directed) ==
    AddEdgesFrom(
        AddNodesFrom(EmptyGraph(DictGet(data, "directed", directed)),
                     [i \in 1..Len(data.nodes) |-> data.nodes[i].id]),
        [i \in 1..Len(data.links) |->
            [source |-> data.links[i].source, sink |-> data.links[i].target,
             metabolite |-> data.links[i].metabolite, weight |-> data.links[i].weight]])

----------------------------------------------------------------------------
(* load_cobra_model_from_file *)

\* Python's None, and a str value
None == <<>>

Str(t) == <<t>>

\* not file_type: None and the empty string are false
NeverMissing(ft) == FALSE

Missing(ft) == ft = None \/ ft = Str("")

LowerCase ==
    {"a", "b", "c", "d", "e", "f", "g", "h", "i", "j", "k", "l", "m", "n", "o", "p",
     "q", "r", "s", "t", "u", "v", "w", "x", "y", "z"}

RECURSIVE Join(_)
Join(cs) == IF cs = <<>> THEN "" ELSE Head(cs) \o Join(Tail(cs))

\* re.findall("\.[a-z]+$", path): the matches, each a dot and the lower case letters
\* after it up to the end of the path; at most one suffix matches
FindAllExtension(path) ==
    LET starts == {i \in 1..Len(path) :
                      /\ path[i] = "."
                      /\ i < Len(path)
                      /\ \A j \in (i + 1)..Len(path) : path[j] \in LowerCase}
    IN  IF starts = {} THEN <<>>
        ELSE LET i == CHOOSE i \in starts : \A j \in starts : i <= j
             IN  <<SubSeq(path, i, Len(path))>>

JsonTags == {"JSON", "json", ".json"}

SbmlTags == {"sbml", "xml", "SBML", ".xml"}

YamlTags == {"yaml", ".yml", "YAML"}

MatlabTags == {"matlab", "mat", ".mat", "Matlab", "MatLab"}

\* the cobra.io loader the if/elif chain picks for a file type, or "none"
LoaderFor(ft) ==
    CASE ft = None -> "none"
      [] ft[1] \in JsonTags -> "load_json_model"
      [] ft[1] \in SbmlTags -> "read_sbml_model"
      [] ft[1] \in YamlTags -> "load_yaml_model"
      [] ft[1] \in MatlabTags -> "load_matlab_model"
      [] OTHER -> "none"

\* load_cobra_model_from_file(model, file_type); loads tells whether the cobra.io
\* loader returns a model or raises
LoadCobraModelFromFile(model, ft, loads) ==
    LET infer == model.type = "str" /\ Missing(ft)
        found == FindAllExtension(model.path)
    IN  IF infer /\ found = <<>>
        THEN [file_type |-> ft, loader_called |-> "none", raised |-> "IndexError",
              metabolic_model |-> "unset"]
        ELSE LET used == IF infer THEN Str(Join(Tail(found[Len(found)]))) ELSE ft
             IN  CASE Missing(used) ->
                        [file_type |-> used, loader_called |-> "none",
                         raised |-> "AttributeError", metabolic_model |-> "unset"]
                   [] ~Missing(used) /\ LoaderFor(used) = "none" ->
                        [file_type |-> used, loader_called |-> "none",
                         raised |-> "none", metabolic_model |-> "None"]
                   [] OTHER ->
                        [file_type |-> used, loader_called |-> LoaderFor(used),
                         raised |-> IF loads THEN "none" ELSE "LoaderError",
                         metabolic_model |-> IF loads THEN "Model" ELSE "unset"]

----------------------------------------------------------------------------
(* The graph constructions *)

\* the rows flux_variability_analysis can return for one reaction
FluxRows ==
    {[minimum |-> Float(lo), maximum |-> Float(hi)] :
        <<lo, hi>> \in {q \in (-1..MaxFlux) \X (-1..MaxFlux) : q[1] <= q[2]}}
    \cup {[minimum |-> NaN, maximum |-> NaN]}

\* no flux variability analysis was run
NoFva == <<>>

NoFrames == [m \in MetIds |-> <<>>]

InitFileIdle ==
    /\ out_file = NoFile
    /\ directed_arg = FALSE
    /\ read_graph = NoGraph

\* the argparse defaults of create_metabolic_network.py
DefaultArgs == [input_file |-> <<>>, file_type |-> None, directed |-> FALSE, verbose |-> FALSE]

InitMainIdle ==
    /\ args = DefaultArgs
    /\ stdout = <<>>
    /\ exit_status = <<>>

InitGenesIdle ==
    /\ genes = <<>>
    /\ locus_list = <<>>
    /\ uniprot_to_locus = <<>>
    /\ names_to_locus = <<>>
    /\ genes_list = <<>>
    /\ final_list = <<>>

InitFbaIdle ==
    /\ bounds = <<>>
    /\ gpr = <<>>
    /\ irr_model = None
    /\ returned = None
    /\ kd_args = <<>>
    /\ kd_dict = <<>>
    /\ kd_trace = <<>>

InitKoIdle ==
    /\ ko_args = <<>>
    /\ ko_model = <<>>
    /\ essential = <<>>
    /\ essentiality_dict = <<>>
    /\ ko_trace = <<>>

InitVerboseIdle ==
    /\ verbose = FALSE
    /\ bars = <<>>

InitLoadIdle ==
    /\ model_arg = [type |-> "Model", path |-> <<>>]
    /\ file_type_arg = None
    /\ file_type = None
    /\ loader_called = "none"
    /\ metabolic_model = "unset"

Init ==
    /\ reversible \in [RxnIds -> BOOLEAN]
    /\ coefficient \in [RxnIds -> [MetIds -> Coefficients]]
    /\ fva_results = NoFva
    /\ pc = "start"
    /\ reciprocal_weight = TRUE
    /\ source_df = NoFrames
    /\ sinks_df = NoFrames
    /\ edge_weight_df = <<>>
    /\ edge_list = <<>>
    /\ raised = "none"
    /\ graph = NoGraph
    /\ InitLoadIdle
    /\ InitFileIdle
    /\ InitMainIdle
    /\ InitGenesIdle
    /\ InitFbaIdle
    /\ InitKoIdle
    /\ InitVerboseIdle

\* find_directed_edges_from_model, given what the flux variability analysis returned:
\* the frames it builds, and the edge list it returns or the exception it ends with
FindDirectedEdgesFromModel(fva, recip) ==
    LET df == RxnMetDf(fva)
        sdfs == [m \in MetIds |-> SourceDf(Group(df, m))]
        kdfs == [m \in MetIds |-> SinksDf(Group(df, m))]
    IN  LET ewdf == EdgeWeightDf(df, sdfs, kdfs, recip)
        IN  [source_df |-> sdfs, sinks_df |-> kdfs, edge_weight_df |-> ewdf,
             raised |-> IF ResolveRaises(ewdf, recip) THEN "IndexError" ELSE "none",
             edge_list |-> IF ResolveRaises(ewdf, recip) THEN <<>>
                           ELSE ResolvedEdges(ewdf, recip)]

\* create_directed_reaction_network on a cobra model
CreateDirectedReactionNetwork ==
    /\ pc = "start"
    /\ \E recip \in BOOLEAN, fva \in [RxnIds -> FluxRows] :
        \E found \in {FindDirectedEdgesFromModel(fva, recip)} :
            /\ fva_results' = fva
            /\ reciprocal_weight' = recip
            /\ source_df' = found.source_df
            /\ sinks_df' = found.sinks_df
            /\ edge_weight_df' = found.edge_weight_df
            /\ raised' = found.raised
            /\ edge_list' = found.edge_list
            /\ graph' = IF found.raised # "none" THEN NoGraph
                         ELSE AddEdgesFrom(AddNodesFrom(EmptyGraph(TRUE), Reactions),
                                           found.edge_list)
    /\ pc' = "directed"
    /\ UNCHANGED <<reversible, coefficient>>
    /\ UNCHANGED loadVars
    /\ UNCHANGED fileVars
    /\ UNCHANGED mainVars
    /\ UNCHANGED geneVars
    /\ UNCHANGED fbaVars
    /\ UNCHANGED koVars
    /\ UNCHANGED verboseVars

\* create_reaction_network on a cobra model, with find_edges_from_model
CreateReactionNetwork ==
    /\ pc = "start"
    /\ edge_list' = UndirectedEdges(RxnMetPairs)
    /\ graph' = AddEdgesFrom(AddNodesFrom(EmptyGraph(FALSE), Reactions),
                             UndirectedEdges(RxnMetPairs))
    /\ pc' = "undirected"
    /\ UNCHANGED <<reversible, coefficient, fva_results, reciprocal_weight, source_df,
                   sinks_df, edge_weight_df, raised>>
    /\ UNCHANGED loadVars
    /\ UNCHANGED fileVars
    /\ UNCHANGED mainVars
    /\ UNCHANGED geneVars
    /\ UNCHANGED fbaVars
    /\ UNCHANGED koVars
    /\ UNCHANGED verboseVars

Next == CreateDirectedReactionNetwork \/ CreateReactionNetwork

Spec == Init /\ [][Next]_vars

----------------------------------------------------------------------------
(* Properties of the graph constructions *)

Returned == pc \in {"directed", "undirected"} /\ raised = "none"

RxnColumn(df) == {df[i].rxn : i \in 1..Len(df)}

Candidates == {edge_weight_df[i] : i \in 1..Len(edge_weight_df)}

Edges == {edge_list[i] : i \in 1..Len(edge_list)}

\* the candidates of the ordered pair of an edge
CandidatesOf(edge) == {c \in Candidates : c.source = edge.source /\ c.sink = edge.sink}

\* C1 (as claimed): the nodes of a returned graph are exactly the reaction
\* identifiers of the model.
C1_NodesAreReactions == Returned => Range(graph.nodes) = RxnIds

\* C2: no returned graph, directed or undirected, and no returned edge list holds
\* an edge from a reaction to itself.
C2_NoSelfEdge ==
    Returned =>
        /\ \A i \in 1..Len(graph.links) : graph.links[i].source # graph.links[i].sink
        /\ \A e \in Edges : e.source # e.sink

\* a reversible reaction whose flux interval straddles zero was a source and a sink
\* of the same metabolite, and the directed graph was returned
C2_Witness ==
    /\ pc = "directed" /\ raised = "none"
    /\ \E c \in Candidates :
        /\ c.source = c.sink
        /\ c.source \in RxnIds
        /\ reversible[c.source]
        /\ IsNeg(fva_results[c.source].minimum)
        /\ IsPos(fva_results[c.source].maximum)
    /\ graph.links # <<>>

\* the ordered pairs a != b such that some metabolite has a in its source frame and
\* b in its sinks frame
LinkedPairs ==
    {p \in (RxnIds \cup {Zero}) \X (RxnIds \cup {Zero}) :
        /\ p[1] # p[2]
        /\ \E m \in MetIds : p[1] \in RxnColumn(source_df[m]) /\ p[2] \in RxnColumn(sinks_df[m])}

ExpectedProduct(c) ==
    IF c.source = Zero THEN Float(0)
    ELSE LET co == coefficient[c.source][c.metabolite]
             fv == fva_results[c.source]
         IN  CASE ~reversible[c.source] -> FMul(fv.maximum, Float(co))
               [] reversible[c.source] /\ co > 0 -> FMul(fv.maximum, Float(co))
               [] OTHER -> FMul(FNeg(fv.minimum), Float(-co))

\* the entries of the source frame a candidate starts at
SourceEntries(c) ==
    {e \in Range(source_df[c.metabolite]) : e.rxn = c.source}

\* C4: without reciprocal weighting the weight of every candidate is the flux of its
\* source entry times the coefficient of its source entry; the sink does not enter.
C4_WeightIsSourceProduct ==
    (pc = "directed" /\ ~reciprocal_weight) =>
        \A c \in Candidates :
            /\ SourceEntries(c) # {}
            /\ \A e \in SourceEntries(c) : c.weight = FMul(e.flux, e.coefficient)
            /\ c.weight = ExpectedProduct(c)
            /\ \A d \in Candidates :
                  (d.source = c.source /\ d.metabolite = c.metabolite) => d.weight = c.weight

\* an irreversible source with coefficient 2 and maximum flux 1 feeds a sink whose
\* own flux product differs, next to a second source of another weight
C4_Witness ==
    /\ pc = "directed" /\ ~reciprocal_weight
    /\ \E c, d \in Candidates :
        /\ c.source \in RxnIds /\ ~reversible[c.source]
        /\ coefficient[c.source][c.metabolite] = 2
        /\ fva_results[c.source].maximum = Float(1)
        /\ c.weight = Float(2)
        /\ \E k \in Range(sinks_df[c.metabolite]) :
              k.rxn = c.sink /\ FMul(k.flux, k.coefficient) # c.weight
        /\ d.metabolite = c.metabolite /\ d.source # c.source
        /\ d.weight = Float(1)

\* C5: with reciprocal weighting the weight of every candidate is
\* 1 / (flux * coefficient + 1e-30) of its source entry: finite for a product of 0.
C5_ReciprocalWeight ==
    (pc = "directed" /\ reciprocal_weight) =>
        \A c \in Candidates :
            /\ c.weight.k # "inf"
            /\ \A e \in SourceEntries(c) :
                  c.weight = IF IsNaN(FMul(e.flux, e.coefficient)) THEN NaN
                             ELSE [k |-> "recip", v |-> e.flux.v * e.coefficient.v, e |-> 1]
            /\ ~IsNaN(ExpectedProduct(c)) =>
                  c.weight = [k |-> "recip", v |-> ExpectedProduct(c).v, e |-> 1]

\* one candidate has the flux product 2 and another the flux product 0
C5_Witness ==
    /\ pc = "directed" /\ reciprocal_weight /\ raised = "none"
    /\ \E c, d \in Candidates :
        /\ c.source \in RxnIds /\ d.source \in RxnIds
        /\ c.weight = [k |-> "recip", v |-> 2, e |-> 1]
        /\ d.weight = [k |-> "recip", v |-> 0, e |-> 1]
        /\ FLess(c.weight, d.weight)

\* the position at which a candidate was first produced
FirstIndex(c) == IndexOf(edge_weight_df, c)

\* C6: the edge of an ordered pair carries the minimum of the weights of the pair's
\* candidates with reciprocal weighting and the maximum without; its weight and its
\* metabolite are those of one candidate; a single candidate is kept as it is.
C6_BestCandidateKept ==
    (pc = "directed" /\ raised = "none") =>
        \A edge \in Edges :
            /\ \E c \in CandidatesOf(edge) :
                  c.weight = edge.weight /\ c.metabolite = edge.metabolite
            /\ \A c \in CandidatesOf(edge) :
                  IF reciprocal_weight THEN ~FLess(c.weight, edge.weight)
                  ELSE ~FLess(edge.weight, c.weight)
            /\ \A c \in CandidatesOf(edge) : CandidatesOf(edge) = {c} => edge = c

\* with reciprocal weighting, a pair has candidates of two different weights through
\* two metabolites and the edge carries the smaller one
C6_Witness ==
    /\ pc = "directed" /\ raised = "none" /\ reciprocal_weight
    /\ \E edge \in Edges : \E c, d \in CandidatesOf(edge) :
        /\ c.metabolite # d.metabolite
        /\ FLess(c.weight, d.weight)
        /\ edge.weight = c.weight /\ edge.metabolite = c.metabolite
        /\ FirstIndex(d) < FirstIndex(c)

\* C7: among the candidates of a pair that have the weight of its edge, the edge is
\* the one produced first.
C7_FirstSeenWins ==
    (pc = "directed" /\ raised = "none") =>
        \A edge \in Edges : \A c \in CandidatesOf(edge) :
            c.weight = edge.weight =>
                \E d \in CandidatesOf(edge) :
                    /\ d.weight = edge.weight /\ d.metabolite = edge.metabolite
                    /\ FirstIndex(d) <= FirstIndex(c)

\* two candidates of one pair tie on the best weight through different metabolites
C7_Witness ==
    /\ pc = "directed" /\ raised = "none"
    /\ \E edge \in Edges : \E c, d \in CandidatesOf(edge) :
        /\ c.metabolite # d.metabolite
        /\ FEq(c.weight, d.weight) /\ FEq(c.weight, edge.weight)
        /\ edge.metabolite = Metabolites[1]
        /\ edge.source \in RxnIds

\* the reactions find_directed_edges_from_model classifies: those with a metabolite
Classified == {r \in RxnIds : \E m \in MetIds : coefficient[r][m] # 0}

\* C8 (as claimed): the directed construction raises when a reaction it classifies
\* has an undefined flux minimum or maximum.
C8_MissingFluxRaises ==
    (pc = "directed"
        /\ \E r \in Classified :
              IsNaN(fva_results[r].minimum) \/ IsNaN(fva_results[r].maximum))
    => raised # "none"

----------------------------------------------------------------------------
(* The loader on its own *)

Stems == {<<"m">>, <<"m", ".", "v", "2">>, <<"d", ".", "d", "/", "m">>}

Suffixes ==
    {<<>>, <<".">>, <<".", "j", "s", "o", "n">>, <<".", "x", "m", "l">>,
     <<".", "y", "a", "m", "l">>, <<".", "y", "m", "l">>, <<".", "m", "a", "t">>,
     <<".", "s", "b", "m", "l">>, <<".", "t", "x", "t">>, <<".", "J", "S", "O", "N">>,
     <<".", "h", "5">>}

\* the model arguments: a path, or an open file
ModelArgs ==
    {[type |-> "str", path |-> st \o su] : st \in Stems, su \in Suffixes}
        \cup {[type |-> "IO", path |-> <<>>]}

\* the file_type arguments: None, the empty string, every tag of the if/elif chain
\* and some other strings
FileTypeArgs ==
    {None} \cup {Str(t) : t \in JsonTags \cup SbmlTags \cup YamlTags \cup MatlabTags
                                \cup {"", "yml", "csv", "Json", ".yaml"}}

InitLoad ==
    /\ model_arg \in ModelArgs
    /\ file_type_arg \in FileTypeArgs
    /\ file_type = None
    /\ loader_called = "none"
    /\ metabolic_model = "unset"
    /\ pc = "start"
    /\ raised = "none"
    /\ reversible = <<>>
    /\ coefficient = <<>>
    /\ fva_results = NoFva
    /\ reciprocal_weight = TRUE
    /\ source_df = <<>>
    /\ sinks_df = <<>>
    /\ edge_weight_df = <<>>
    /\ edge_list = <<>>
    /\ graph = NoGraph
    /\ InitFileIdle
    /\ InitMainIdle
    /\ InitGenesIdle
    /\ InitFbaIdle
    /\ InitKoIdle
    /\ InitVerboseIdle

LoadModel ==
    /\ pc = "start"
    /\ \E loads \in BOOLEAN :
        \E out \in {LoadCobraModelFromFile(model_arg, file_type_arg, loads)} :
            /\ file_type' = out.file_type
            /\ loader_called' = out.loader_called
            /\ raised' = out.raised
            /\ metabolic_model' = out.metabolic_model
    /\ pc' = "loaded"
    /\ UNCHANGED <<model_arg, file_type_arg>>
    /\ UNCHANGED netVars
    /\ UNCHANGED fileVars
    /\ UNCHANGED mainVars
    /\ UNCHANGED geneVars
    /\ UNCHANGED fbaVars
    /\ UNCHANGED koVars
    /\ UNCHANGED verboseVars

NextLoad == LoadModel

SpecLoad == InitLoad /\ [][NextLoad]_vars

AllTags == JsonTags \cup SbmlTags \cup YamlTags \cup MatlabTags

\* C9 (as claimed): the loader raises whenever the format, given or inferred from the
\* extension, is none of the recognised tags.
C9_UnrecognisedFormatFails ==
    (pc = "loaded" /\ (file_type = None \/ file_type[1] \notin AllTags)) => raised # "none"

\* C10: called with an input that is no path string and with no format hint, the
\* loader raises the missing-format error and invokes no cobra.io loader.
C10_MissingFormatRaises ==
    (pc = "loaded" /\ model_arg.type # "str"
        /\ (file_type_arg = None \/ file_type_arg = Str(""))) =>
        /\ raised = "AttributeError"
        /\ loader_called = "none"
        /\ metabolic_model = "unset"

\* the call with an open file and no file type ended with the error
C10_Witness ==
    /\ pc = "loaded"
    /\ model_arg.type = "IO"
    /\ file_type_arg = None
    /\ raised = "AttributeError"

----------------------------------------------------------------------------
(* The format inferred from the extension of a path *)

\* the text after the last dot of a path, "" when the path has no dot
PathExtension(path) ==
    LET dots == {i \in 1..Len(path) : path[i] = "."}
    IN  IF dots = {} THEN ""
        ELSE LET i == CHOOSE i \in dots : \A j \in dots : j <= i
             IN  Join(SubSeq(path, i + 1, Len(path)))

\* the extensions that name an accepted format, and the loader of each
ExtensionLoader ==
    [e \in {"json", "xml", "yaml", "yml", "mat"} |->
        CASE e = "json" -> "load_json_model"
          [] e = "xml" -> "read_sbml_model"
          [] e \in {"yaml", "yml"} -> "load_yaml_model"
          [] e = "mat" -> "load_matlab_model"]

\* C11 (as claimed): called with a path and no format tag, the loader of the format the
\* extension names is invoked and its model returned when the extension is one of
\* json, xml, yaml, yml, mat, and the call fails for every other or missing extension.
C11_ExtensionInferred ==
    (pc = "loaded" /\ model_arg.type = "str" /\ file_type_arg = None) =>
        LET ext == PathExtension(model_arg.path)
        IN  IF ext \in DOMAIN ExtensionLoader
            THEN /\ loader_called = ExtensionLoader[ext]
                 /\ raised = "none" => metabolic_model = "Model"
            ELSE raised # "none"

----------------------------------------------------------------------------
(* The undirected graph *)

\* the metabolites two reactions share, in the order groupby("met") visits them
SharedMetabolites(a, b) ==
    SelectSeq(Metabolites, LAMBDA m : coefficient[a][m] # 0 /\ coefficient[b][m] # 0)

\* the links of the graph that join two reactions, in either direction
LinksBetween(a, b) ==
    SelectSeq(graph.links, LAMBDA l : {l.source, l.sink} = {a, b})

\* C12: in the undirected graph two distinct reactions are joined exactly once when they
\* share a metabolite and not at all when they share none, no reaction is joined to
\* itself, and no flux variability analysis has been run.
C12_JoinedIffShared ==
    pc = "undirected" =>
        /\ ~graph.directed
        /\ fva_results = NoFva
        /\ \A a, b \in RxnIds :
              Len(LinksBetween(a, b)) =
                  IF a # b /\ SharedMetabolites(a, b) # <<>> THEN 1 ELSE 0

\* two reactions that share both metabolites are joined by one link
C12_Witness ==
    /\ pc = "undirected"
    /\ Len(SharedMetabolites("A", "B")) = 2
    /\ Len(LinksBetween("A", "B")) = 1
    /\ Len(edge_list) = 2

\* C13 (as claimed): the link of two reactions carries the first metabolite they share,
\* in the order the metabolite groups are visited.
C13_FirstSharedMetabolite ==
    pc = "undirected" =>
        \A i \in 1..Len(graph.links) :
            graph.links[i].metabolite =
                SharedMetabolites(graph.links[i].source, graph.links[i].sink)[1]

----------------------------------------------------------------------------
(* Writing a constructed graph to a file and reading it back *)

\* the coefficients of the models whose graphs are written
UnitCoefficients == {-1, 0, 1}

InitFile ==
    /\ reversible \in [RxnIds -> BOOLEAN]
    /\ coefficient \in [RxnIds -> [MetIds -> UnitCoefficients]]
    /\ fva_results = NoFva
    /\ pc = "start"
    /\ reciprocal_weight = TRUE
    /\ source_df = NoFrames
    /\ sinks_df = NoFrames
    /\ edge_weight_df = <<>>
    /\ edge_list = <<>>
    /\ raised = "none"
    /\ graph = NoGraph
    /\ InitLoadIdle
    /\ InitFileIdle
    /\ InitMainIdle
    /\ InitGenesIdle
    /\ InitFbaIdle
    /\ InitKoIdle
    /\ InitVerboseIdle

\* write_network(network, out_path) on a graph a construction returned
WriteNetwork ==
    /\ pc \in {"directed", "undirected"}
    /\ raised = "none"
    /\ out_file' = JsonDump(NodeLinkData(graph))
    /\ pc' = "written"
    /\ UNCHANGED <<directed_arg, read_graph, raised>>
    /\ UNCHANGED netVars
    /\ UNCHANGED loadVars
    /\ UNCHANGED mainVars
    /\ UNCHANGED geneVars
    /\ UNCHANGED fbaVars
    /\ UNCHANGED koVars
    /\ UNCHANGED verboseVars

\* read_network(in_file, directed) on the file written
ReadNetwork ==
    /\ pc = "written"
    /\ \E directed \in BOOLEAN :
        /\ directed_arg' = directed
        /\ read_graph' = NodeLinkGraph(JsonLoad(out_file), directed)
    /\ pc' = "read"
    /\ UNCHANGED <<out_file, raised>>
    /\ UNCHANGED netVars
    /\ UNCHANGED loadVars
    /\ UNCHANGED mainVars
    /\ UNCHANGED geneVars
    /\ UNCHANGED fbaVars
    /\ UNCHANGED koVars
    /\ UNCHANGED verboseVars

NextFile ==
    \/ CreateDirectedReactionNetwork
    \/ CreateReactionNetwork
    \/ WriteNetwork
    \/ ReadNetwork

SpecFile == InitFile /\ [][NextFile]_vars

\* the edges of a graph with their attributes; the two ends of an edge of an undirected
\* graph are not ordered
EdgeSet(G) ==
    {[ends |-> IF G.directed THEN <<G.links[i].source, G.links[i].sink>>
               ELSE {G.links[i].source, G.links[i].sink},
      weight |-> G.links[i].weight,
      metabolite |-> G.links[i].metabolite] : i \in 1..Len(G.links)}

----------------------------------------------------------------------------
(* metabolic_network.py: the constructions behind the command line tool *)

\* find_edges_from_model of metabolic_network.py: every combination of a group
MnUndirectedEdges(df) ==
    LET keys == GroupKeys(df)
    IN  Flatten([g \in 1..Len(keys) |->
            Combinations([i \in 1..Len(Group(df, keys[g])) |->
                             Group(df, keys[g])[i].rxn], keys[g])])

\* source_df of metabolic_network.py: the irreversible sources are not clamped
MnSourceDf(df) ==
    RenameFluxMax(SelectSeq(df, LAMBDA r : ~r.reversible /\ IsPos(r.coefficient)))
        \o ReversibleSourcePosCoefDf(df) \o ReversibleSourceNegCoefDf(df)

\* the resolution of metabolic_network.py appends an edge for every pair
MnResolveRaises(ewdf, recip) ==
    \E i \in 1..Len(PairKeys(ewdf)) : GroupRaises(PairGroup(ewdf, PairKeys(ewdf)[i]), recip)

MnResolvedEdges(ewdf, recip) ==
    [i \in 1..Len(PairKeys(ewdf)) |-> ResolvedEdge(PairGroup(ewdf, PairKeys(ewdf)[i]), recip)]

\* find_directed_edges_from_model of metabolic_network.py
MnFindDirectedEdgesFromModel(fva, recip) ==
    LET df == RxnMetDf(fva)
        sdfs == [m \in MetIds |-> MnSourceDf(Group(df, m))]
        kdfs == [m \in MetIds |-> SinksDf(Group(df, m))]
    IN  LET ewdf == EdgeWeightDf(df, sdfs, kdfs, recip)
        IN  [raised |-> IF MnResolveRaises(ewdf, recip) THEN "IndexError" ELSE "none",
             edge_list |-> IF MnResolveRaises(ewdf, recip) THEN <<>>
                           ELSE MnResolvedEdges(ewdf, recip)]

\* create_metabolic_network(model) and create_directed_metabolic_network(model, ...):
\* a model that is no cobra model goes to the loader without a file type, which raises;
\* the flux variability analysis of the directed construction can raise
MnCreateNetwork(model, directed, recip, fva, fva_raises) ==
    CASE model # "Model" -> [raised |-> "AttributeError", graph |-> NoGraph]
      [] model = "Model" /\ ~directed ->
            [raised |-> "none",
             graph |-> AddEdgesFrom(AddNodesFrom(EmptyGraph(FALSE), Reactions),
                                    MnUndirectedEdges(RxnMetPairs))]
      [] model = "Model" /\ directed /\ fva_raises ->
            [raised |-> "OptimizationError", graph |-> NoGraph]
      [] OTHER ->
            LET found == MnFindDirectedEdgesFromModel(fva, recip)
            IN  [raised |-> found.raised,
                 graph |-> IF found.raised # "none" THEN NoGraph
                           ELSE AddEdgesFrom(AddNodesFrom(EmptyGraph(TRUE), Reactions),
                                             found.edge_list)]

----------------------------------------------------------------------------
(* scripts/create_metabolic_network.py *)

\* the parameters of the two constructors of metabolic_network.py
CreateMetabolicNetworkParams == {"model", "file_type"}

CreateDirectedMetabolicNetworkParams ==
    {"model", "file_type", "reciprocal_weight", "do_loopless", "fva_prop"}

ConstructorParams(directed) ==
    IF directed THEN CreateDirectedMetabolicNetworkParams ELSE CreateMetabolicNetworkParams

\* the keywords of the call main makes; the model is passed by position
MainKeywords(directed) ==
    IF directed THEN {"reciprocal_weight", "do_loopless", "fva_prop", "verbose"}
    ELSE {"verbose"}

\* a call binds when each of its keywords names a parameter; Python raises TypeError for
\* an unexpected keyword before the body of the function runs
CallBinds(params, keywords) == keywords \subseteq params

\* if verbose: print(line)
PrintIf(v, out, line) == IF v THEN Append(out, line) ELSE out

\* --reciprocal is a store_true flag whose default is True
Reciprocal_arg == TRUE

\* the input files of the command line: paths with and without an extension, and the
\* default of --input
InputFiles == {<<"m">> \o su : su \in Suffixes} \cup {<<>>}

\* the model the input file holds
FileCoefficient == [r \in RxnIds |-> [m \in MetIds |-> IF (r = "A") = (m = "M") THEN 1 ELSE -1]]

InitMain ==
    /\ args \in [input_file : InputFiles, file_type : FileTypeArgs,
                 directed : BOOLEAN, verbose : BOOLEAN]
    /\ stdout = <<>>
    /\ exit_status = <<>>
    /\ reversible \in [RxnIds -> BOOLEAN]
    /\ coefficient = FileCoefficient
    /\ fva_results = NoFva
    /\ pc = "start"
    /\ reciprocal_weight = TRUE
    /\ source_df = NoFrames
    /\ sinks_df = NoFrames
    /\ edge_weight_df = <<>>
    /\ edge_list = <<>>
    /\ raised = "none"
    /\ graph = NoGraph
    /\ InitLoadIdle
    /\ InitFileIdle
    /\ InitGenesIdle
    /\ InitFbaIdle
    /\ InitKoIdle
    /\ InitVerboseIdle

\* main, lines 68-72: the model is loaded; an exception ends the process with status 1
MainLoadModel ==
    /\ pc = "start"
    /\ \E loads \in BOOLEAN :
        \E out \in {LoadCobraModelFromFile([type |-> "str", path |-> args.input_file],
                                           args.file_type, loads)} :
            /\ file_type' = out.file_type
            /\ loader_called' = out.loader_called
            /\ raised' = out.raised
            /\ metabolic_model' = out.metabolic_model
            /\ exit_status' = IF out.raised # "none" THEN <<1>> ELSE <<>>
            /\ pc' = IF out.raised # "none" THEN "exited" ELSE "loaded"
    /\ model_arg' = [type |-> "str", path |-> args.input_file]
    /\ file_type_arg' = args.file_type
    /\ stdout' = PrintIf(args.verbose, stdout, "Reading model from file")
    /\ UNCHANGED args
    /\ UNCHANGED netVars
    /\ UNCHANGED fileVars
    /\ UNCHANGED geneVars
    /\ UNCHANGED fbaVars
    /\ UNCHANGED koVars
    /\ UNCHANGED verboseVars

\* main, lines 73-87: the network is created and written; the process ends with status
\* 0 when main returns and with status 1 when an exception leaves it
MainCreateAndWrite ==
    /\ pc = "loaded"
    /\ \E fva \in [RxnIds -> FluxRows], fva_raises \in BOOLEAN :
        \E made \in {IF CallBinds(ConstructorParams(args.directed),
                                  MainKeywords(args.directed))
                     THEN MnCreateNetwork(metabolic_model, args.directed, Reciprocal_arg,
                                          fva, fva_raises)
                     ELSE [raised |-> "TypeError", graph |-> NoGraph]} :
            /\ raised' = made.raised
            /\ graph' = made.graph
            /\ fva_results' = IF made.raised \in {"none", "IndexError"} /\ args.directed
                              THEN fva ELSE fva_results
            /\ out_file' = IF made.raised = "none" THEN JsonDump(NodeLinkData(made.graph))
                           ELSE out_file
            /\ stdout' =
                  IF made.raised = "none"
                  THEN PrintIf(args.verbose,
                           PrintIf(args.verbose,
                               PrintIf(args.verbose, stdout, "Creating network from model"),
                               "Network created, writing to file"),
                           "Finished")
                  ELSE PrintIf(args.verbose, stdout, "Creating network from model")
            /\ exit_status' = IF made.raised = "none" THEN <<0>> ELSE <<1>>
    /\ pc' = "exited"
    /\ UNCHANGED <<args, directed_arg, read_graph>>
    /\ UNCHANGED <<reversible, coefficient, reciprocal_weight, source_df, sinks_df,
                   edge_weight_df, edge_list>>
    /\ UNCHANGED loadVars
    /\ UNCHANGED geneVars
    /\ UNCHANGED fbaVars
    /\ UNCHANGED koVars
    /\ UNCHANGED verboseVars

NextMain == MainLoadModel \/ MainCreateAndWrite

SpecMain == InitMain /\ [][NextMain]_vars

\* C15 (as claimed): the tool run on a model file that loads ends with status 0 and the
\* graph file written, unless the flux variability analysis failed; it ends with a
\* status other than 0 when loading or the analysis failed; and it prints Finished only
\* with the file written.
C15_ExitStatus ==
    /\ pc = "exited" =>
          IF metabolic_model = "Model" /\ raised # "OptimizationError"
          THEN exit_status = <<0>> /\ out_file # NoFile
          ELSE exit_status # <<0>>
    /\ "Finished" \in Range(stdout) => out_file # NoFile

----------------------------------------------------------------------------
(* read_gene_list.py *)

\* the longest genes string of the model
MaxGenesLen == 4

UpperCase ==
    {"A", "B", "C", "D", "E", "F", "G", "H", "I", "J", "K", "L", "M", "N", "O", "P",
     "Q", "R", "S", "T", "U", "V", "W", "X", "Y", "Z"}

Digits == {"0", "1", "2", "3", "4", "5", "6", "7", "8", "9"}

\* the character class [a-zA-Z0-9]
AlphaNumeric == LowerCase \cup UpperCase \cup Digits

\* the character class \w on ASCII text
WordChars == AlphaNumeric \cup {"_"}

\* re.findall(class+, s): the scan with the run read so far; a run ends at the first
\* character outside the class or at the end of the string
RECURSIVE FindAllRuns(_, _, _)
FindAllRuns(class, s, run) ==
    LET ended == IF run = <<>> THEN <<>> ELSE <<Join(run)>>
    IN  IF s = <<>> THEN ended
        ELSE IF Head(s) \in class THEN FindAllRuns(class, Tail(s), Append(run, Head(s)))
        ELSE ended \o FindAllRuns(class, Tail(s), <<>>)

\* a parse_list that splits at the characters outside \w
ParseListWords(s) == FindAllRuns(WordChars, s, <<>>)

\* parse_list(genes)
ParseList(s) == FindAllRuns(AlphaNumeric, s, <<>>)

\* a translation that asks the name dict before the UniProt dict
TranslateGeneNamesFirst(gene, locus, uniprot, names) ==
    IF gene \in Range(locus) THEN <<gene>>
    ELSE IF gene \in DOMAIN names THEN <<names[gene]>>
    ELSE IF gene \in DOMAIN uniprot THEN <<uniprot[gene]>>
    ELSE <<>>

\* the body of the loop of translate_list: what one gene adds to final_list
TranslateGene(gene, locus, uniprot, names) ==
    IF gene \in Range(locus) THEN <<gene>>
    ELSE IF gene \in DOMAIN uniprot THEN <<uniprot[gene]>>
    ELSE IF gene \in DOMAIN names THEN <<names[gene]>>
    ELSE <<>>

\* translate_list(genes, ...) with the three tables read
TranslateList(s, locus, uniprot, names) ==
    Flatten([i \in 1..Len(ParseList(s)) |->
                TranslateGene(ParseList(s)[i], locus, uniprot, names)])

\* the characters of the genes strings: letters of both cases, a digit, separators and
\* the underscore
GeneChars == {"a", "R", "1", "-", ",", " ", "_"}

GeneStrings == UNION {[1..n -> GeneChars] : n \in 0..MaxGenesLen}

\* the tables create_name_dicts.py writes: every value of the two dicts is a locus of
\* the locus list; a key can be in several tables
NameDicts ==
    {[locus_list |-> <<"R1", "Ra">>,
      uniprot_to_locus |-> ("1" :> "R1" @@ "R1" :> "Ra"),
      names_to_locus |-> ("a" :> "Ra" @@ "1" :> "Ra")],
     [locus_list |-> <<"R1", "Ra">>,
      uniprot_to_locus |-> ("a" :> "R1"),
      names_to_locus |-> ("a" :> "Ra" @@ "R" :> "R1" @@ "Ra" :> "R1")],
     [locus_list |-> <<"R1">>,
      uniprot_to_locus |-> <<>>,
      names_to_locus |-> <<>>]}

InitNetIdle ==
    /\ reversible = <<>>
    /\ coefficient = <<>>
    /\ fva_results = NoFva
    /\ reciprocal_weight = TRUE
    /\ source_df = <<>>
    /\ sinks_df = <<>>
    /\ edge_weight_df = <<>>
    /\ edge_list = <<>>
    /\ graph = NoGraph

InitGenes ==
    /\ genes \in GeneStrings
    /\ \E t \in NameDicts :
          /\ locus_list = t.locus_list
          /\ uniprot_to_locus = t.uniprot_to_locus
          /\ names_to_locus = t.names_to_locus
    /\ genes_list = <<>>
    /\ final_list = <<>>
    /\ pc = "start"
    /\ raised = "none"
    /\ InitNetIdle
    /\ InitLoadIdle
    /\ InitFileIdle
    /\ InitMainIdle
    /\ InitFbaIdle
    /\ InitKoIdle
    /\ InitVerboseIdle

\* parse_list(genes)
ParseGenes ==
    /\ pc = "start"
    /\ genes_list' = ParseList(genes)
    /\ pc' = "parsed"
    /\ UNCHANGED <<genes, locus_list, uniprot_to_locus, names_to_locus, final_list, raised>>
    /\ UNCHANGED netVars
    /\ UNCHANGED loadVars
    /\ UNCHANGED fileVars
    /\ UNCHANGED mainVars
    /\ UNCHANGED fbaVars
    /\ UNCHANGED koVars
    /\ UNCHANGED verboseVars

\* translate_list(genes, ...): open raises when one of the three files is missing
TranslateGenes ==
    /\ pc = "start"
    /\ genes_list' = ParseList(genes)
    /\ \E found \in BOOLEAN :
          /\ raised' = IF found THEN "none" ELSE "FileNotFoundError"
          /\ final_list' = IF found
                           THEN TranslateList(genes, locus_list, uniprot_to_locus,
                                              names_to_locus)
                           ELSE final_list
    /\ pc' = "translated"
    /\ UNCHANGED <<genes, locus_list, uniprot_to_locus, names_to_locus>>
    /\ UNCHANGED netVars
    /\ UNCHANGED loadVars
    /\ UNCHANGED fileVars
    /\ UNCHANGED mainVars
    /\ UNCHANGED fbaVars
    /\ UNCHANGED koVars
    /\ UNCHANGED verboseVars

NextGenes == ParseGenes \/ TranslateGenes

SpecGenes == InitGenes /\ [][NextGenes]_vars

\* the positions where a run of letters and digits starts, and where that run ends
RunStarts(s) ==
    {i \in 1..Len(s) : s[i] \in AlphaNumeric /\ (i = 1 \/ s[i - 1] \notin AlphaNumeric)}

RunEnd(s, i) ==
    CHOOSE j \in i..Len(s) :
        /\ \A k \in i..j : s[k] \in AlphaNumeric
        /\ j = Len(s) \/ s[j + 1] \notin AlphaNumeric

\* C16: parse_list returns the maximal runs of letters and digits of its input, one
\* entry per run in the order of the runs, none of them empty; equal runs are all kept.
C16_MaximalRuns ==
    pc = "parsed" =>
        /\ Len(genes_list) = Cardinality(RunStarts(genes))
        /\ \A i \in RunStarts(genes) :
              genes_list[Cardinality({j \in RunStarts(genes) : j <= i})] =
                  Join(SubSeq(genes, i, RunEnd(genes, i)))
        /\ \A k \in 1..Len(genes_list) : genes_list[k] # ""

\* a string with an underscore and a comma was split into two genes, equal to each other
C16_Witness ==
    /\ pc = "parsed"
    /\ genes = <<"a", "_", "a", ",">>
    /\ genes_list = <<"a", "a">>

\* the genes of the input that at least one of the three tables knows
KnownGenes ==
    SelectSeq(genes_list,
              LAMBDA g : \/ g \in Range(locus_list)
                         \/ g \in DOMAIN uniprot_to_locus
                         \/ g \in DOMAIN names_to_locus)

\* C17: translate_list returns one entry per gene of the input that a table knows, in
\* input order: the gene itself when it is a locus tag, else its UniProt translation,
\* else its name translation; every entry is a locus tag of the locus list.
C17_TranslatedInOrder ==
    (pc = "translated" /\ raised = "none") =>
        /\ Len(final_list) = Len(KnownGenes)
        /\ \A i \in 1..Len(KnownGenes) :
              /\ final_list[i] \in Range(locus_list)
              /\ final_list[i] =
                    IF KnownGenes[i] \in Range(locus_list) THEN KnownGenes[i]
                    ELSE IF KnownGenes[i] \in DOMAIN uniprot_to_locus
                         THEN uniprot_to_locus[KnownGenes[i]]
                         ELSE names_to_locus[KnownGenes[i]]

\* a gene both dicts know, with different translations, and an unknown gene were
\* translated: one entry, the UniProt translation
C17_Witness ==
    /\ pc = "translated"
    /\ raised = "none"
    /\ Len(genes_list) = 2
    /\ genes_list[1] \in (DOMAIN uniprot_to_locus \cap DOMAIN names_to_locus)
                             \ Range(locus_list)
    /\ uniprot_to_locus[genes_list[1]] # names_to_locus[genes_list[1]]
    /\ genes_list[2] \notin Range(locus_list) \cup DOMAIN uniprot_to_locus
                                \cup DOMAIN names_to_locus
    /\ final_list = <<uniprot_to_locus[genes_list[1]]>>

----------------------------------------------------------------------------
(* utils.py: create_irreversible_model *)

\* a cobra model: its reactions in order, and the bounds, the coefficients and the gene
\* rule of each
Model(rxns, bnds, mets, rules) ==
    [reactions |-> rxns, bounds |-> bnds, metabolites |-> mets, gpr |-> rules]

\* rxn.reversibility
Reversibility(b) == b.lower < 0 /\ b.upper > 0

\* f"{rxn.id}_reverse"
ReverseId(id) == id \o "_reverse"

\* the for loop of create_irreversible_model from the i-th reaction of irr_model on.
\* rxn.metabolites is a dict: iterating it yields its keys, and unpacking a Metabolite
\* into (metabolite, coefficient) raises TypeError. With no metabolite the forward bounds
\* are set; the reverse reaction is built and then dropped, it is added to no model.
RECURSIVE SplitReversibleFrom(_, _)
SplitReversibleFrom(m, i) ==
    IF i > Len(m.reactions) THEN [raised |-> "none", irr_model |-> m]
    ELSE LET rxn == m.reactions[i]
         IN  IF ~Reversibility(m.bounds[rxn]) THEN SplitReversibleFrom(m, i + 1)
             ELSE IF \E met \in MetIds : m.metabolites[rxn][met] # 0
                  THEN [raised |-> "TypeError", irr_model |-> m]
                  ELSE SplitReversibleFrom(
                           [m EXCEPT !.bounds[rxn] = [lower |-> 0, upper |-> @.upper]],
                           i + 1)

\* create_irreversible_model(model): the function has no return statement
CreateIrreversibleModel(model) ==
    [raised |-> SplitReversibleFrom(model, 1).raised,
     irr_model |-> SplitReversibleFrom(model, 1).irr_model,
     returned |-> None]

\* the bounds of the reactions of the models that are split
IrrBounds == {[lower |-> l, upper |-> u] : l \in -1..0, u \in 0..1}

\* the gene rules of the reactions: no rule, one gene, both genes, either gene
GeneRules == {{}, {{"g1"}}, {{"g1", "g2"}}, {{"g1"}, {"g2"}}}

InitIrr ==
    /\ bounds \in [RxnIds -> IrrBounds]
    /\ coefficient \in [RxnIds -> [MetIds -> UnitCoefficients]]
    /\ gpr \in [RxnIds -> {{}, {{"g1"}}}]
    /\ irr_model = None
    /\ returned = None
    /\ kd_args = <<>>
    /\ kd_dict = <<>>
    /\ kd_trace = <<>>
    /\ reversible = <<>>
    /\ fva_results = NoFva
    /\ reciprocal_weight = TRUE
    /\ source_df = <<>>
    /\ sinks_df = <<>>
    /\ edge_weight_df = <<>>
    /\ edge_list = <<>>
    /\ graph = NoGraph
    /\ pc = "start"
    /\ raised = "none"
    /\ InitLoadIdle
    /\ InitFileIdle
    /\ InitMainIdle
    /\ InitGenesIdle
    /\ InitKoIdle
    /\ InitVerboseIdle

\* create_irreversible_model(model)
MakeIrreversible ==
    /\ pc = "start"
    /\ \E out \in {CreateIrreversibleModel(Model(Reactions, bounds, coefficient, gpr))} :
          /\ raised' = out.raised
          /\ irr_model' = out.irr_model
          /\ returned' = out.returned
    /\ pc' = "irreversible"
    /\ UNCHANGED <<bounds, gpr, kd_args, kd_dict, kd_trace>>
    /\ UNCHANGED netVars
    /\ UNCHANGED loadVars
    /\ UNCHANGED fileVars
    /\ UNCHANGED mainVars
    /\ UNCHANGED geneVars
    /\ UNCHANGED koVars
    /\ UNCHANGED verboseVars

NextIrr == MakeIrreversible

SpecIrr == InitIrr /\ [][NextIrr]_vars

\* C18 (as claimed): create_irreversible_model returns a model without reversible
\* reactions, in which every reversible reaction of the input with bounds (l, u) has the
\* bounds (0, u) and a reaction <id>_reverse beside it with the negated coefficients, the
\* bounds (0, -l) and the same gene rule, and every other reaction is as in the input.
C18_SplitModelReturned ==
    pc = "irreversible" =>
        /\ raised = "none"
        /\ returned # None
        /\ \A i \in 1..Len(returned.reactions) :
              ~Reversibility(returned.bounds[returned.reactions[i]])
        /\ \A r \in RxnIds :
              /\ r \in Range(returned.reactions)
              /\ returned.metabolites[r] = coefficient[r]
              /\ returned.gpr[r] = gpr[r]
              /\ IF Reversibility(bounds[r])
                 THEN /\ returned.bounds[r] = [lower |-> 0, upper |-> bounds[r].upper]
                      /\ ReverseId(r) \in Range(returned.reactions)
                      /\ returned.bounds[ReverseId(r)] =
                             [lower |-> 0, upper |-> -bounds[r].lower]
                      /\ \A m \in MetIds :
                             returned.metabolites[ReverseId(r)][m] = -coefficient[r][m]
                      /\ returned.gpr[ReverseId(r)] = gpr[r]
                 ELSE returned.bounds[r] = bounds[r]

----------------------------------------------------------------------------
(* fba/fba_kd.py: gene_knockdown *)

\* the largest num of the model
MaxNum == 3

LowerLetters ==
    <<"a", "b", "c", "d", "e", "f", "g", "h", "i", "j", "k", "l", "m", "n", "o", "p",
      "q", "r", "s", "t", "u", "v", "w", "x", "y", "z">>

UpperLetters ==
    <<"A", "B", "C", "D", "E", "F", "G", "H", "I", "J", "K", "L", "M", "N", "O", "P",
      "Q", "R", "S", "T", "U", "V", "W", "X", "Y", "Z">>

\* str.upper() on a string given by its characters
StrUpper(cs) ==
    Join([i \in 1..Len(cs) |->
             IF cs[i] \in LowerCase THEN UpperLetters[IndexOf(LowerLetters, cs[i])]
             ELSE cs[i]])

\* GPR.eval(knockouts): a rule holds while one of its gene sets has no gene knocked
\* out; the empty rule holds always
GprEval(rule, knockouts) == rule = {} \/ \E c \in rule : c \cap knockouts = {}

\* find_dependent_reactions(model, gene): None has no reactions, and the rule is read
\* from the attribute GPR of a reaction, which a cobra Reaction may not have
FindDependentReactions(model, gene, has_GPR) ==
    IF model = None \/ (model.reactions # <<>> /\ ~has_GPR)
    THEN [raised |-> "AttributeError", reaction_list |-> <<>>]
    ELSE [raised |-> "none",
          reaction_list |-> SelectSeq(model.reactions,
                                      LAMBDA r : ~GprEval(model.gpr[r], {gene}))]

\* lines 67-74: the reaction list of a gene; for a list of genes the list of the
\* reaction lists of its genes (append, not extend); ValueError for any other type
ReactionList(model, gs, has_GPR) ==
    CASE gs.type = "str" ->
            [raised |-> FindDependentReactions(model, gs.value, has_GPR).raised,
             nested |-> FALSE,
             reaction_list |->
                 FindDependentReactions(model, gs.value, has_GPR).reaction_list]
      [] gs.type = "list" ->
            LET found == [i \in 1..Len(gs.value) |->
                             FindDependentReactions(model, gs.value[i], has_GPR)]
            IN  IF \E i \in 1..Len(found) : found[i].raised # "none"
                THEN [raised |-> "AttributeError", nested |-> TRUE, reaction_list |-> <<>>]
                ELSE [raised |-> "none", nested |-> TRUE,
                      reaction_list |-> [i \in 1..Len(found) |-> found[i].reaction_list]]
      [] OTHER -> [raised |-> "ValueError", nested |-> FALSE, reaction_list |-> <<>>]

\* flux_variability_analysis(irr_model, reaction_list, ...): None has no reactions, a
\* list is no reaction of the model, and the analysis itself can fail
FluxVariabilityAnalysis(model, rl, fva, fva_raises) ==
    CASE model = None -> [raised |-> "AttributeError", fluxes |-> <<>>]
      [] model # None /\ rl.nested /\ rl.reaction_list # <<>> ->
            [raised |-> "TypeError", fluxes |-> <<>>]
      [] model # None /\ ~(rl.nested /\ rl.reaction_list # <<>>) /\ fva_raises ->
            [raised |-> "OptimizationError", fluxes |-> <<>>]
      [] OTHER -> [raised |-> "none", fluxes |-> [r \in Range(rl.reaction_list) |-> fva[r]]]

\* lines 81-86: the column of the analysis that max_flux names
FluxColumn(max_flux) ==
    CASE StrUpper(max_flux) \in {"MAX", "MAX_FLUX"} -> "maximum"
      [] StrUpper(max_flux) \in {"MIN", "MIN_FLUX"} -> "minimum"
      [] OTHER -> "ValueError"

\* np.linspace(0, 1, num)[i]: the fraction i / (num - 1), and 0 when num is 1
Level(i, num) == [n |-> i, d |-> IF num = 1 THEN 1 ELSE num - 1]

\* flux * (1 - kd), a fraction
ScaledFlux(flux, kd) == [n |-> flux * (kd.d - kd.n), d |-> kd.d]

\* a Python list and a Python float
PyList(s) == [type |-> "list", value |-> s]

PyFloat(x) == [type |-> "float", value |-> x]

\* irr_model.slim_optimize() with the upper bounds given, as the solver's answer to
\* them, and that answer divided by objective_max
SlimOptimize(upper_bounds, ratio) == [optimum_of |-> upper_bounds, ratio |-> ratio]

\* the upper bounds of the reactions of a model, as fractions
UpperBoundsOf(model) ==
    [r \in Range(model.reactions) |-> [n |-> model.bounds[r].upper, d |-> 1]]

\* the upper bounds inside the with block: those of the reactions of the list are set
UpperBounds(ub, reaction_list, fluxes, kd) ==
    [r \in DOMAIN ub |->
        IF r \in Range(reaction_list) THEN ScaledFlux(fluxes[r], kd) ELSE ub[r]]

\* the position in the list of the first reaction whose new upper bound is below its
\* lower bound, which the setter of upper_bound rejects with ValueError; 0 for none
FirstRejected(model, reaction_list, fluxes, kd) ==
    LET bad == {i \in 1..Len(reaction_list) :
                   ScaledFlux(fluxes[reaction_list[i]], kd).n
                       < model.bounds[reaction_list[i]].lower * kd.d}
    IN  IF bad = {} THEN 0 ELSE CHOOSE i \in bad : \A j \in bad : i <= j

\* a with block that keeps what was assigned inside it
ModelContextExitKeeping(before, inside) == inside

\* leaving "with irr_model:", by its end or by an exception: the context of the model
\* undoes the assignments made inside the block
ModelContextExit(before, inside) == before

\* lines 102-106: kd_dict["knockdown"] = kd and kd_dict["objective"] = the optimum
KnockdownStep(ub, reaction_list, fluxes, ratio, kd_d, kd) ==
    [knockdown |-> PyFloat(kd),
     objective |-> PyFloat(SlimOptimize(UpperBounds(ub, reaction_list, fluxes, kd),
                                        ratio))]

\* lines 94-106 from step i on, with the upper bounds ub of irr_model and the bounds
\* seen around the with blocks so far. A float has no append; the setter of upper_bound
\* raises ValueError for a bound below the lower bound; a float divided by 0.0 raises
RECURSIVE KnockdownLoop(_, _, _, _, _, _, _, _, _, _)
KnockdownLoop(model, reaction_list, fluxes, ratio, max_zero, num, i, kd_d, ub, trace) ==
    IF i = num THEN [raised |-> "none", kd_dict |-> kd_d, trace |-> trace]
    ELSE IF kd_d.knockdown.type # "list"
         THEN [raised |-> "AttributeError", kd_dict |-> kd_d, trace |-> trace]
    ELSE LET kd == Level(i, num)
             appended == [kd_d EXCEPT !.knockdown = PyList(Append(@.value, kd))]
             rejected == FirstRejected(model, reaction_list, fluxes, kd)
             inside == UpperBounds(ub,
                                   IF rejected = 0 THEN reaction_list
                                   ELSE SubSeq(reaction_list, 1, rejected - 1),
                                   fluxes, kd)
             after == ModelContextExit(ub, inside)
             seen == Append(trace, [before |-> ub, inside |-> inside, after |-> after])
         IN  IF rejected # 0
             THEN [raised |-> "ValueError", kd_dict |-> appended, trace |-> seen]
             ELSE IF ratio /\ max_zero
                  THEN [raised |-> "ZeroDivisionError",
                        kd_dict |-> [appended EXCEPT !.knockdown = PyFloat(kd)],
                        trace |-> seen]
                  ELSE KnockdownLoop(model, reaction_list, fluxes, ratio, max_zero, num,
                                     i + 1,
                                     KnockdownStep(ub, reaction_list, fluxes, ratio,
                                                   appended, kd),
                                     after, seen)

\* pd.DataFrame(kd_dict): a dict of lists makes a table with a row per entry, a dict of
\* scalars without an index raises ValueError
DataFrame(kd_d) ==
    IF kd_d.knockdown.type = "list" /\ kd_d.objective.type = "list"
    THEN [raised |-> "none",
          returned |-> [knockdown |-> kd_d.knockdown.value,
                        objective |-> kd_d.objective.value]]
    ELSE [raised |-> "ValueError", returned |-> None]

NoKdDict == [knockdown |-> PyList(<<>>), objective |-> PyList(<<>>)]

\* gene_knockdown(model, genes, max_flux, num, objective_ratio, model_irreversible), with
\* what the solver and cobra answer: the analysis frame fva, whether it fails, whether
\* objective_max is 0.0, and whether a Reaction has the attribute GPR
GeneKnockdown(model, a, fva, fva_raises, max_zero, has_GPR) ==
    LET made == IF a.model_irreversible THEN [raised |-> "none", returned |-> model]
                ELSE CreateIrreversibleModel(model)
        irr == made.returned
        rl == ReactionList(irr, a.genes, has_GPR)
        run == FluxVariabilityAnalysis(irr, rl, fva, fva_raises)
        column == FluxColumn(a.max_flux)
        fluxes == [r \in DOMAIN run.fluxes |-> run.fluxes[r][column]]
        fail(e) == [raised |-> e, kd_dict |-> <<>>, returned |-> None, trace |-> <<>>]
    IN  CASE made.raised # "none" -> fail(made.raised)
          [] made.raised = "none" /\ rl.raised # "none" -> fail(rl.raised)
          [] made.raised = "none" /\ rl.raised = "none" /\ run.raised # "none" ->
                fail(run.raised)
          [] made.raised = "none" /\ rl.raised = "none" /\ run.raised = "none"
                /\ column = "ValueError" -> fail("ValueError")
          [] OTHER ->
                LET loop == KnockdownLoop(irr, rl.reaction_list, fluxes,
                                          a.objective_ratio, max_zero, a.num, 0, NoKdDict,
                                          UpperBoundsOf(irr), <<>>)
                IN  IF loop.raised # "none"
                    THEN [raised |-> loop.raised, kd_dict |-> loop.kd_dict,
                          returned |-> None, trace |-> loop.trace]
                    ELSE [raised |-> DataFrame(loop.kd_dict).raised,
                          kd_dict |-> loop.kd_dict,
                          returned |-> DataFrame(loop.kd_dict).returned,
                          trace |-> loop.trace]

\* the bounds of the reactions of the models that are knocked down
KdBounds == {[lower |-> 0, upper |-> 1], [lower |-> -1, upper |-> 1]}

\* the rows of the analysis frame: a range of fluxes, a fixed flux, a negative minimum
KdFluxRows ==
    {[minimum |-> 0, maximum |-> 1], [minimum |-> 1, maximum |-> 1],
     [minimum |-> -1, maximum |-> 0]}

\* the genes arguments: a gene, lists of genes, and a tuple
KdGenes ==
    {[type |-> "str", value |-> "g1"], [type |-> "list", value |-> <<>>],
     [type |-> "list", value |-> <<"g1">>], [type |-> "list", value |-> <<"g1", "g2">>],
     [type |-> "tuple", value |-> <<"g1">>]}

\* the max_flux arguments
KdMaxFlux == {<<"m", "i", "n">>, <<"M", "a", "x", "_", "f", "l", "u", "x">>,
              <<"m", "e", "a", "n">>}

InitKd ==
    /\ bounds \in [RxnIds -> KdBounds]
    /\ coefficient = FileCoefficient
    /\ gpr \in [RxnIds -> GeneRules]
    /\ kd_args \in [genes : KdGenes, num : 0..MaxNum, max_flux : KdMaxFlux,
                    objective_ratio : BOOLEAN, model_irreversible : BOOLEAN]
    /\ irr_model = None
    /\ returned = None
    /\ kd_dict = <<>>
    /\ kd_trace = <<>>
    /\ reversible = <<>>
    /\ fva_results = NoFva
    /\ reciprocal_weight = TRUE
    /\ source_df = <<>>
    /\ sinks_df = <<>>
    /\ edge_weight_df = <<>>
    /\ edge_list = <<>>
    /\ graph = NoGraph
    /\ pc = "start"
    /\ raised = "none"
    /\ InitLoadIdle
    /\ InitFileIdle
    /\ InitMainIdle
    /\ InitGenesIdle
    /\ InitKoIdle
    /\ InitVerboseIdle

\* gene_knockdown(model, genes, ...)
KnockGeneDown ==
    /\ pc = "start"
    /\ \E fva \in [RxnIds -> KdFluxRows], fva_raises, max_zero, has_GPR \in BOOLEAN :
        \E out \in {GeneKnockdown(Model(Reactions, bounds, coefficient, gpr), kd_args,
                                  fva, fva_raises, max_zero, has_GPR)} :
            /\ raised' = out.raised
            /\ kd_dict' = out.kd_dict
            /\ returned' = out.returned
            /\ kd_trace' = out.trace
            /\ fva_results' = IF out.kd_dict # <<>> THEN fva ELSE fva_results
    /\ pc' = "knockdown"
    /\ UNCHANGED <<bounds, gpr, irr_model, kd_args>>
    /\ UNCHANGED <<reversible, coefficient, reciprocal_weight, source_df, sinks_df,
                   edge_weight_df, edge_list, graph>>
    /\ UNCHANGED loadVars
    /\ UNCHANGED fileVars
    /\ UNCHANGED mainVars
    /\ UNCHANGED geneVars
    /\ UNCHANGED koVars
    /\ UNCHANGED verboseVars

NextKd == KnockGeneDown

SpecKd == InitKd /\ [][NextKd]_vars

\* the reactions that depend on the gene or on one of the genes of the list
DependentOnGenes ==
    {r \in RxnIds :
        \E g \in (IF kd_args.genes.type = "str" THEN {kd_args.genes.value}
                  ELSE Range(kd_args.genes.value)) : ~GprEval(gpr[r], {g})}

\* C19 (as claimed): for num >= 1, a gene or a list of genes and a valid max_flux,
\* gene_knockdown returns a table of num rows unless the solver failed; the levels are
\* i / (num - 1) in increasing order, and the objective of a row is the optimum with the
\* upper bound of every dependent reaction set to its flux times (1 - level).
C19_KnockdownTable ==
    (/\ pc = "knockdown"
     /\ kd_args.num >= 1
     /\ kd_args.genes.type \in {"str", "list"}
     /\ FluxColumn(kd_args.max_flux) # "ValueError"
     /\ raised \notin {"OptimizationError", "ZeroDivisionError"}) =>
        /\ raised = "none"
        /\ returned # None
        /\ Len(returned.knockdown) = kd_args.num
        /\ Len(returned.objective) = kd_args.num
        /\ \A i \in 1..kd_args.num :
              /\ returned.knockdown[i] = Level(i - 1, kd_args.num)
              /\ returned.objective[i] =
                    SlimOptimize(
                        [r \in RxnIds |->
                            IF r \in DependentOnGenes
                            THEN ScaledFlux(
                                     fva_results[r][FluxColumn(kd_args.max_flux)],
                                     Level(i - 1, kd_args.num))
                            ELSE [n |-> bounds[r].upper, d |-> 1]],
                        kd_args.objective_ratio)

----------------------------------------------------------------------------
(* The source set and the sink set of an irreversible reaction *)

\* the flux column of the rows of reaction r in a frame
FluxesOf(df, r) == {df[i].flux : i \in {j \in 1..Len(df) : df[j].rxn = r}}

\* C20 (as claimed): after find_directed_edges_from_model, for every metabolite m and
\* every irreversible reaction r, r is in the source frame of m exactly when its
\* coefficient for m is positive and in the sinks frame of m exactly when it is
\* negative, whatever its fluxes are, and the flux of each of its rows is its FVA
\* maximum.
C20_IrreversibleClassified ==
    pc = "directed" =>
        \A m \in MetIds, r \in RxnIds :
            ~reversible[r] =>
                /\ r \in RxnColumn(source_df[m]) <=> coefficient[r][m] > 0
                /\ r \in RxnColumn(sinks_df[m]) <=> coefficient[r][m] < 0
                /\ FluxesOf(source_df[m], r) \subseteq {fva_results[r].maximum}
                /\ FluxesOf(sinks_df[m], r) \subseteq {fva_results[r].maximum}

\* the product 0 * c of a clamped source, as the weight of a candidate
ClampedWeight(recip) == IF recip THEN ReciprocalWeight(Float(0)) ELSE Float(0)

\* C21 (as claimed): an irreversible reaction r with a positive coefficient c for
\* metabolite m and a negative FVA maximum keeps one source entry (r, m, c) whose
\* flux is 0, and for every sink k of m there is a candidate edge from r to k
\* annotated with m whose weight is that of the product 0 * c.
C21_ClampKeepsSource ==
    pc = "directed" =>
        \A m \in MetIds, r \in RxnIds :
            (~reversible[r] /\ coefficient[r][m] > 0 /\ IsNeg(fva_results[r].maximum)) =>
                /\ \E e \in Range(source_df[m]) :
                      /\ e.rxn = r /\ e.met = m
                      /\ e.coefficient = Float(coefficient[r][m])
                      /\ e.flux = Float(0)
                /\ \A k \in RxnColumn(sinks_df[m]) :
                      \E c \in Candidates :
                          /\ c.source = r /\ c.sink = k /\ c.metabolite = m
                          /\ c.weight = ClampedWeight(reciprocal_weight)

----------------------------------------------------------------------------
(* The source set and the sink set of a reversible reaction *)

\* the rows of reaction r in a frame, in the order of the frame
RowsOf(df, r) == SelectSeq(df, LAMBDA e : e.rxn = r)

\* the forward entry: flux_max and the coefficient as they are
ForwardEntry(r, m) ==
    [rxn |-> r, met |-> m, coefficient |-> Float(coefficient[r][m]),
     flux |-> fva_results[r].maximum]

\* the reverse entry: flux_min and the coefficient with their signs changed
ReverseEntry(r, m) ==
    [rxn |-> r, met |-> m, coefficient |-> Float(-coefficient[r][m]),
     flux |-> FNeg(fva_results[r].minimum)]

\* C22: a reversible reaction r has a source entry for metabolite m exactly when its
\* coefficient c and its maximum are positive (entry with flux max and coefficient c)
\* or c and its minimum are negative (entry with flux -min and coefficient -c); the
\* flux and the coefficient of every such entry are strictly positive.
C22_ReversibleSource ==
    pc = "directed" =>
        \A m \in MetIds, r \in RxnIds :
            reversible[r] =>
                /\ RowsOf(source_df[m], r) =
                      (IF coefficient[r][m] > 0 /\ IsPos(fva_results[r].maximum)
                       THEN <<ForwardEntry(r, m)>> ELSE <<>>)
                      \o (IF coefficient[r][m] < 0 /\ IsNeg(fva_results[r].minimum)
                          THEN <<ReverseEntry(r, m)>> ELSE <<>>)
                /\ \A e \in Range(RowsOf(source_df[m], r)) :
                      IsPos(e.flux) /\ IsPos(e.coefficient)

\* one reversible reaction is a source of a metabolite through its forward branch
\* and another through its reverse branch, with coefficient -2 turned into 2
C22_Witness ==
    /\ pc = "directed"
    /\ \E m \in MetIds, r, q \in RxnIds :
        /\ r # q /\ reversible[r] /\ reversible[q]
        /\ coefficient[r][m] = 1 /\ fva_results[r].maximum = Float(1)
        /\ coefficient[q][m] = -2 /\ fva_results[q].minimum = Float(-1)
        /\ Len(source_df[m]) = 2
        /\ \E e \in Range(source_df[m]) :
              e.rxn = q /\ e.coefficient = Float(2) /\ e.flux = Float(1)

\* C23: a reversible reaction r has a sink entry for metabolite m exactly when its
\* coefficient c is positive and its minimum negative (entry with flux -min and
\* coefficient -c) or c is negative and its maximum positive (entry with flux max and
\* coefficient c); with the flux interval [0, 0] it has no source and no sink entry.
C23_ReversibleSink ==
    pc = "directed" =>
        \A m \in MetIds, r \in RxnIds :
            reversible[r] =>
                /\ RowsOf(sinks_df[m], r) =
                      (IF coefficient[r][m] > 0 /\ IsNeg(fva_results[r].minimum)
                       THEN <<ReverseEntry(r, m)>> ELSE <<>>)
                      \o (IF coefficient[r][m] < 0 /\ IsPos(fva_results[r].maximum)
                          THEN <<ForwardEntry(r, m)>> ELSE <<>>)
                /\ (fva_results[r].minimum = Float(0) /\ fva_results[r].maximum = Float(0)) =>
                      RowsOf(source_df[m], r) = <<>> /\ RowsOf(sinks_df[m], r) = <<>>

\* one reversible reaction is a sink of a metabolite through its reverse branch with
\* coefficient 2 turned into -2, and the other, with the interval [0, 0], takes part
\* in the metabolite but is in neither frame
C23_Witness ==
    /\ pc = "directed"
    /\ \E m \in MetIds, r, q \in RxnIds :
        /\ r # q /\ reversible[r] /\ reversible[q]
        /\ coefficient[r][m] = 2 /\ fva_results[r].minimum = Float(-1)
        /\ \E e \in Range(sinks_df[m]) :
              e.rxn = r /\ e.coefficient = Float(-2) /\ e.flux = Float(1)
        /\ coefficient[q][m] # 0
        /\ fva_results[q] = [minimum |-> Float(0), maximum |-> Float(0)]
        /\ q \notin RxnColumn(source_df[m]) \cup RxnColumn(sinks_df[m])

\* no two rows of the frame carry the same identifier in the rxn column
UniqueRxn(df) == \A i, j \in 1..Len(df) : df[i].rxn = df[j].rxn => i = j

\* C24 (as claimed): for every metabolite no identifier occurs twice in the rxn column
\* of the source frame or twice in that of the sinks frame, and the weight of every
\* candidate is computed from the one source entry that carries its source identifier.
C24_UniqueEntries ==
    pc = "directed" =>
        /\ \A m \in MetIds : UniqueRxn(source_df[m]) /\ UniqueRxn(sinks_df[m])
        /\ \A c \in Candidates :
              /\ Len(RowsOf(source_df[c.metabolite], c.source)) = 1
              /\ c.weight = EdgeWeight(RowsOf(source_df[c.metabolite], c.source),
                                       c.source, reciprocal_weight)

----------------------------------------------------------------------------
(* Reciprocal weighting on and off *)

\* the ordered pair and the metabolite annotation of every edge of a list
Annotated(edges) ==
    {<<edges[i].source, edges[i].sink, edges[i].metabolite>> : i \in 1..Len(edges)}

\* flux * coefficient of the source entry a candidate was weighted with
FluxProduct(c) == SourceProduct(source_df[c.metabolite], c.source)

----------------------------------------------------------------------------
(* The bounds of the models around a knockdown sweep *)

\* C26: every with block of gene_knockdown leaves the upper bounds of irr_model as it
\* found them, and those are the upper bounds of the model of the caller, which the
\* call does not change.
C26_BoundsScoped ==
    pc = "knockdown" =>
        \A i \in 1..Len(kd_trace) :
            /\ kd_trace[i].after = kd_trace[i].before
            /\ kd_trace[i].before = [r \in RxnIds |-> [n |-> bounds[r].upper, d |-> 1]]

\* a level was evaluated with the upper bound 1 of a dependent reaction lowered to its
\* flux 0 inside the with block
C26_Witness ==
    /\ pc = "knockdown"
    /\ Len(kd_trace) >= 1
    /\ \E r \in DependentOnGenes :
        /\ kd_trace[1].before[r] = [n |-> 1, d |-> 1]
        /\ kd_trace[1].inside[r].n = 0
        /\ kd_trace[1].after[r] = [n |-> 1, d |-> 1]
    /\ kd_dict.objective.type = "float"

----------------------------------------------------------------------------
(* find_metabolite_gene_essentiality *)

\* the genes a list of genes is made of
Genes == {"g1", "g2"}

\* the objective the model has when it is passed in
ModelObjective == "objective"

\* f"{metabolite.id}_demand"
DemandId(id) == id \o "_demand"

\* metabolic_model.add_boundary(metabolite, "demand", id): the reaction is added to the
\* model; a model that has a reaction of that identifier raises ValueError
AddBoundary(model, met) ==
    IF \E i \in 1..Len(model.reactions) : model.reactions[i] = DemandId(met)
    THEN [raised |-> "ValueError", model |-> model]
    ELSE [raised |-> "none",
          model |-> [model EXCEPT !.reactions = Append(@, DemandId(met))]]

\* results["growth"] / max_objective on a column of floats: dividing by 0.0 gives nan
\* or inf, it does not raise
GrowthRatio(growth, max_objective) ==
    IF max_objective = 0 THEN (IF growth = 0 THEN NaN ELSE Inf) ELSE Float(growth)

\* results["growth"] <= (1 - essentiality_prop), the proportion given in percent
IsEssential(ratio, essentiality_prop) ==
    ratio.k = "num" /\ ratio.v * 100 <= 100 - essentiality_prop

\* single_gene_deletion(metabolic_model, genes): a row per gene with the set of its
\* identifier and its growth, here already divided by max_objective
SingleGeneDeletion(gs, answer) ==
    [k \in 1..Len(gs) |->
        [ids |-> {gs[k]}, growth |-> GrowthRatio(answer.growth[gs[k]], answer.max_objective),
         status |-> "optimal"]]

\* "for row in essential": iterating a DataFrame yields its column labels, not its rows
IterDataFrame(df) == <<"ids", "growth", "status">>

\* row["ids"] on what the iteration yields: a str indexed by a str raises TypeError
GetItemRaises(row) == row \in {"ids", "growth", "status"}

\* lines 29-46 from the i-th metabolite on: nothing removes the demand reaction or
\* restores the objective between two metabolites
RECURSIVE EssentialityFrom(_, _, _, _, _, _, _)
EssentialityFrom(mets, i, gs, essentiality_prop, answers, model, st) ==
    IF i > Len(mets) THEN [raised |-> "none", model |-> model, st |-> st]
    ELSE LET added == AddBoundary(model, mets[i])
             with_objective == [added.model EXCEPT !.objective = DemandId(mets[i])]
             frame == SelectSeq(SingleGeneDeletion(gs, answers[mets[i]]),
                                LAMBDA row : IsEssential(row.growth, essentiality_prop))
             seen == [st EXCEPT !.trace = Append(@, with_objective)]
         IN  CASE added.raised # "none" ->
                    [raised |-> added.raised, model |-> model, st |-> st]
               [] added.raised = "none" /\ ~answers[mets[i]].genes_known ->
                    [raised |-> "KeyError", model |-> with_objective, st |-> seen]
               [] added.raised = "none" /\ answers[mets[i]].genes_known
                    /\ GetItemRaises(IterDataFrame(frame)[1]) ->
                    [raised |-> "TypeError", model |-> with_objective,
                     st |-> [seen EXCEPT !.essential = frame]]
               [] OTHER ->
                    EssentialityFrom(mets, i + 1, gs, essentiality_prop, answers,
                                     with_objective, [seen EXCEPT !.essential = frame])

\* find_metabolite_gene_essentiality(model, genes, essentiality_prop) on a model with
\* the metabolites mets, with what the solver answers for every metabolite
FindMetaboliteGeneEssentiality(mets, gs, essentiality_prop, answers) ==
    EssentialityFrom(mets, 1, gs, essentiality_prop, answers,
                     [reactions |-> <<>>, objective |-> ModelObjective],
                     [essentiality_dict |-> [g \in Range(gs) |-> <<>>],
                      essential |-> <<>>, trace |-> <<>>])

\* what the solver can answer for one metabolite: the optimum of its demand, the growth
\* without each gene, and whether the model knows every gene of the list
KoAnswers == [max_objective : {0, 1}, growth : [Genes -> {0, 1}], genes_known : BOOLEAN]

\* the metabolites of the models and the lists of genes
KoMetabolites == {<<>>, <<"M">>, <<"N">>, <<"M", "N">>, <<"N", "M">>}

KoGenes == {<<>>, <<"g1">>, <<"g2">>, <<"g1", "g2">>, <<"g2", "g1">>}

InitKo ==
    /\ ko_args \in [metabolites : KoMetabolites, genes : KoGenes,
                    essentiality_prop : {0, 95}]
    /\ ko_model = <<>>
    /\ essential = <<>>
    /\ essentiality_dict = <<>>
    /\ ko_trace = <<>>
    /\ pc = "start"
    /\ raised = "none"
    /\ InitNetIdle
    /\ InitLoadIdle
    /\ InitFileIdle
    /\ InitMainIdle
    /\ InitGenesIdle
    /\ InitFbaIdle
    /\ InitVerboseIdle

\* find_metabolite_gene_essentiality(model, genes, essentiality_prop)
FindEssentiality ==
    /\ pc = "start"
    /\ \E answers \in [Range(ko_args.metabolites) -> KoAnswers] :
        \E out \in {FindMetaboliteGeneEssentiality(ko_args.metabolites, ko_args.genes,
                                                   ko_args.essentiality_prop, answers)} :
            /\ raised' = out.raised
            /\ ko_model' = out.model
            /\ essential' = out.st.essential
            /\ essentiality_dict' = out.st.essentiality_dict
            /\ ko_trace' = out.st.trace
    /\ pc' = "essentiality"
    /\ UNCHANGED ko_args
    /\ UNCHANGED netVars
    /\ UNCHANGED loadVars
    /\ UNCHANGED fileVars
    /\ UNCHANGED mainVars
    /\ UNCHANGED geneVars
    /\ UNCHANGED fbaVars
    /\ UNCHANGED verboseVars

NextKo == FindEssentiality

SpecKo == InitKo /\ [][NextKo]_vars

\* C27 (as claimed): when the model knows the genes, find_metabolite_gene_essentiality
\* evaluates every metabolite on a model whose only added reaction is the demand of that
\* metabolite, and ends with the demand removed and the objective restored.
C27_EvaluatedInIsolation ==
    (pc = "essentiality" /\ raised # "KeyError") =>
        /\ raised = "none"
        /\ Len(ko_trace) = Len(ko_args.metabolites)
        /\ \A i \in 1..Len(ko_trace) :
              ko_trace[i].reactions = <<DemandId(ko_args.metabolites[i])>>
        /\ ko_model.reactions = <<>>
        /\ ko_model.objective = ModelObjective

----------------------------------------------------------------------------
(* ProgressBar *)

\* ProgressBar(total=total, divisions=divisions): per is total // divisions
ProgressBar(total, divisions) ==
    [total |-> total, progress |-> 0, per |-> total \div divisions,
     divisions |-> divisions, finished |-> 0]

\* inc(): the progress is counted and print_bar(progress) computes progress / per, which
\* raises ZeroDivisionError when per is 0; "Finished!" is printed when the progress
\* equals the total
Inc(bar) ==
    IF bar.per = 0
    THEN [raised |-> "ZeroDivisionError", bar |-> [bar EXCEPT !.progress = @ + 1]]
    ELSE [raised |-> "none",
          bar |-> [bar EXCEPT !.progress = @ + 1,
                              !.finished = IF bar.progress + 1 = bar.total THEN @ + 1
                                           ELSE @]]

\* the bars of the constructions divide their total into ten parts
Divisions == 10

----------------------------------------------------------------------------
(* metabolite_network.py: find_edges_from_model and create_metabolite_network *)

\* rxn.metabolites of a reaction, in the order of the model
MetabolitesOf(rxn) == SelectSeq(Metabolites, LAMBDA m : coefficient[rxn][m] # 0)

\* lines 38-47: the sources of a reaction; every metabolite of a reversible reaction
MetSources(rxn) ==
    IF reversible[rxn] THEN MetabolitesOf(rxn)
    ELSE SelectSeq(MetabolitesOf(rxn), LAMBDA m : coefficient[rxn][m] < 0)

\* lines 38-47: the targets of a reaction; every metabolite of a reversible reaction
MetTargets(rxn) ==
    IF reversible[rxn] THEN MetabolitesOf(rxn)
    ELSE SelectSeq(MetabolitesOf(rxn), LAMBDA m : coefficient[rxn][m] > 0)

\* itertools.product(sources, targets) without a test of source != target
MetProductAll(rxn) ==
    Flatten([i \in 1..Len(MetSources(rxn)) |->
        [j \in 1..Len(MetTargets(rxn)) |->
            [source |-> MetSources(rxn)[i], target |-> MetTargets(rxn)[j],
             reaction |-> rxn]]])

\* lines 48-50: itertools.product(sources, targets), the pairs with source != target
MetProduct(rxn) == SelectSeq(MetProductAll(rxn), LAMBDA e : e.source # e.target)

\* find_edges_from_model(model, verbose) of metabolite_network.py: with verbose the bar
\* of line 29 is advanced at the first reaction
MetFindEdgesFromModel(v) ==
    IF v /\ Reactions # <<>>
          /\ Inc(ProgressBar(Len(Reactions), Divisions)).raised # "none"
    THEN [raised |-> Inc(ProgressBar(Len(Reactions), Divisions)).raised,
          edge_list |-> <<>>]
    ELSE [raised |-> "none",
          edge_list |-> Flatten([i \in 1..Len(Reactions) |-> MetProduct(Reactions[i])])]

\* DiGraph.add_edge(u, v, reaction=...): both ends become nodes; an edge already present
\* keeps its place and has its attribute updated
AddReactionEdge(G, c) ==
    LET H == AddNode(AddNode(G, c.source), c.target)
        at == {i \in 1..Len(H.links) :
                  H.links[i].source = c.source /\ H.links[i].target = c.target}
    IN  IF at = {} THEN [H EXCEPT !.links = Append(@, c)]
        ELSE [H EXCEPT !.links =
                 [i \in 1..Len(@) |-> IF i \in at THEN c ELSE @[i]]]

RECURSIVE AddReactionEdgesFrom(_, _)
AddReactionEdgesFrom(G, es) ==
    IF es = <<>> THEN G ELSE AddReactionEdgesFrom(AddReactionEdge(G, Head(es)), Tail(es))

InitMet ==
    /\ reversible \in [RxnIds -> BOOLEAN]
    /\ coefficient \in [RxnIds -> [MetIds -> Coefficients]]
    /\ fva_results = NoFva
    /\ pc = "start"
    /\ reciprocal_weight = TRUE
    /\ source_df = NoFrames
    /\ sinks_df = NoFrames
    /\ edge_weight_df = <<>>
    /\ edge_list = <<>>
    /\ raised = "none"
    /\ graph = NoGraph
    /\ InitLoadIdle
    /\ InitFileIdle
    /\ InitMainIdle
    /\ InitGenesIdle
    /\ InitFbaIdle
    /\ InitKoIdle
    /\ InitVerboseIdle

\* create_metabolite_network(model, verbose=verbose) on a cobra model
CreateMetaboliteNetwork ==
    /\ pc = "start"
    /\ \E v \in BOOLEAN :
        \E found \in {MetFindEdgesFromModel(v)} :
            /\ raised' = found.raised
            /\ edge_list' = found.edge_list
            /\ graph' = IF found.raised # "none" THEN NoGraph
                         ELSE AddReactionEdgesFrom(
                                  AddNodesFrom(EmptyGraph(TRUE), Metabolites),
                                  found.edge_list)
    /\ pc' = "metabolite"
    /\ UNCHANGED <<reversible, coefficient, fva_results, reciprocal_weight, source_df,
                   sinks_df, edge_weight_df>>
    /\ UNCHANGED loadVars
    /\ UNCHANGED fileVars
    /\ UNCHANGED mainVars
    /\ UNCHANGED geneVars
    /\ UNCHANGED fbaVars
    /\ UNCHANGED koVars
    /\ UNCHANGED verboseVars

NextMet == CreateMetaboliteNetwork

SpecMet == InitMet /\ [][NextMet]_vars

\* a reaction that links metabolite x to metabolite y: irreversible, consuming x and
\* producing y, or reversible with both
LinksMetabolites(r, x, y) ==
    IF reversible[r] THEN coefficient[r][x] # 0 /\ coefficient[r][y] # 0
    ELSE coefficient[r][x] < 0 /\ coefficient[r][y] > 0

\* C28: a returned metabolite network has exactly the metabolites of the model as
\* nodes, no edge from a metabolite to itself, one edge (x, y) for exactly the pairs
\* x != y that some reaction links, annotated with such a reaction, and so both (x, y)
\* and (y, x) for two metabolites of a reversible reaction.
C28_MetaboliteNetwork ==
    (pc = "metabolite" /\ raised = "none") =>
        /\ graph.directed
        /\ Range(graph.nodes) = MetIds /\ Len(graph.nodes) = Cardinality(MetIds)
        /\ \A i \in 1..Len(graph.links) :
              /\ graph.links[i].source # graph.links[i].target
              /\ LinksMetabolites(graph.links[i].reaction, graph.links[i].source,
                                  graph.links[i].target)
              /\ \A j \in 1..Len(graph.links) :
                    (graph.links[j].source = graph.links[i].source
                       /\ graph.links[j].target = graph.links[i].target) => i = j
        /\ \A x, y \in MetIds :
              (x # y /\ \E r \in RxnIds : LinksMetabolites(r, x, y)) <=>
                  \E i \in 1..Len(graph.links) :
                      graph.links[i].source = x /\ graph.links[i].target = y
        /\ \A r \in RxnIds, x, y \in MetIds :
              (reversible[r] /\ x # y /\ coefficient[r][x] # 0 /\ coefficient[r][y] # 0) =>
                  \E i, j \in 1..Len(graph.links) :
                      /\ graph.links[i].source = x /\ graph.links[i].target = y
                      /\ graph.links[j].source = y /\ graph.links[j].target = x

\* an irreversible reaction turns M into N, a reversible reaction joins them both ways,
\* and the network has the two edges and no more
C28_Witness ==
    /\ pc = "metabolite" /\ raised = "none"
    /\ \E r, q \in RxnIds :
        /\ ~reversible[r] /\ coefficient[r]["M"] < 0 /\ coefficient[r]["N"] > 0
        /\ reversible[q] /\ coefficient[q]["M"] # 0 /\ coefficient[q]["N"] # 0
    /\ Len(graph.links) = 2
    /\ Len(edge_list) = 3

----------------------------------------------------------------------------
(* reaction_network.py: the constructions with verbose output *)

\* n calls of bar.inc(), ended by the first that raises
RECURSIVE IncTimes(_, _)
IncTimes(bar, n) ==
    IF n = 0 THEN [raised |-> "none", bar |-> bar]
    ELSE IF Inc(bar).raised # "none" THEN Inc(bar)
         ELSE IncTimes(Inc(bar).bar, n - 1)

\* find_edges_from_model(model, verbose): the bar of line 32 is advanced once for every
\* reaction and the bar of line 45 once for every metabolite group
FindEdgesFromModel(v) ==
    LET first == IncTimes(ProgressBar(Len(Reactions), Divisions), Len(Reactions))
        groups == Len(GroupKeys(RxnMetPairs))
        second == IncTimes(ProgressBar(groups, Divisions), groups)
    IN  CASE ~v -> [raised |-> "none", edge_list |-> UndirectedEdges(RxnMetPairs),
                    bars |-> <<>>]
          [] v /\ first.raised # "none" ->
                [raised |-> first.raised, edge_list |-> <<>>, bars |-> <<first.bar>>]
          [] v /\ first.raised = "none" /\ second.raised # "none" ->
                [raised |-> second.raised, edge_list |-> <<>>,
                 bars |-> <<first.bar, second.bar>>]
          [] OTHER -> [raised |-> "none", edge_list |-> UndirectedEdges(RxnMetPairs),
                       bars |-> <<first.bar, second.bar>>]

\* the number of pair groups the resolving loop enters: all of them, or those up to
\* the first group whose best row is missing
GroupsEntered(ewdf, recip) ==
    LET keys == PairKeys(ewdf)
        bad == {i \in 1..Len(keys) :
                   KeepPair(keys[i][1], keys[i][2])
                      /\ GroupRaises(PairGroup(ewdf, keys[i]), recip)}
    IN  IF bad = {} THEN Len(keys) ELSE CHOOSE i \in bad : \A j \in bad : i <= j

\* find_directed_edges_from_model(model, reciprocal_weight, verbose=verbose): the bar of
\* line 90 is never advanced, the bar of line 106 is advanced once for every metabolite
\* group and the bar of line 172 once for every pair group
FindDirectedEdgesFromModelVerbose(fva, recip, v) ==
    LET found == FindDirectedEdgesFromModel(fva, recip)
        first == ProgressBar(Len(Reactions), Divisions)
        groups == Len(GroupKeys(RxnMetDf(fva)))
        second == IncTimes(ProgressBar(groups, Divisions), groups)
        pairs == Len(PairKeys(found.edge_weight_df))
        third == IncTimes(ProgressBar(pairs, Divisions),
                          GroupsEntered(found.edge_weight_df, recip))
    IN  CASE ~v -> [raised |-> found.raised, edge_list |-> found.edge_list, bars |-> <<>>]
          [] v /\ second.raised # "none" ->
                [raised |-> second.raised, edge_list |-> <<>>,
                 bars |-> <<first, second.bar>>]
          [] v /\ second.raised = "none" /\ third.raised # "none" ->
                [raised |-> third.raised, edge_list |-> <<>>,
                 bars |-> <<first, second.bar, third.bar>>]
          [] OTHER -> [raised |-> found.raised, edge_list |-> found.edge_list,
                       bars |-> <<first, second.bar, third.bar>>]

InitVerbose ==
    /\ reversible \in [RxnIds -> BOOLEAN]
    /\ coefficient \in [RxnIds -> [MetIds -> UnitCoefficients]]
    /\ verbose \in BOOLEAN
    /\ bars = <<>>
    /\ fva_results = NoFva
    /\ pc = "start"
    /\ reciprocal_weight = TRUE
    /\ source_df = NoFrames
    /\ sinks_df = NoFrames
    /\ edge_weight_df = <<>>
    /\ edge_list = <<>>
    /\ raised = "none"
    /\ graph = NoGraph
    /\ InitLoadIdle
    /\ InitFileIdle
    /\ InitMainIdle
    /\ InitGenesIdle
    /\ InitFbaIdle
    /\ InitKoIdle

\* find_edges_from_model(model, verbose)
FindEdges ==
    /\ pc = "start"
    /\ \E found \in {FindEdgesFromModel(verbose)} :
        /\ raised' = found.raised
        /\ edge_list' = found.edge_list
        /\ bars' = found.bars
    /\ pc' = "edges"
    /\ UNCHANGED <<reversible, coefficient, fva_results, reciprocal_weight, source_df,
                   sinks_df, edge_weight_df, graph, verbose>>
    /\ UNCHANGED loadVars
    /\ UNCHANGED fileVars
    /\ UNCHANGED mainVars
    /\ UNCHANGED geneVars
    /\ UNCHANGED fbaVars
    /\ UNCHANGED koVars

\* find_directed_edges_from_model(model, reciprocal_weight, verbose=verbose)
FindDirectedEdges ==
    /\ pc = "start"
    /\ \E recip \in BOOLEAN, fva \in [RxnIds -> FluxRows] :
        \E found \in {FindDirectedEdgesFromModelVerbose(fva, recip, verbose)} :
            /\ fva_results' = fva
            /\ reciprocal_weight' = recip
            /\ raised' = found.raised
            /\ edge_list' = found.edge_list
            /\ bars' = found.bars
    /\ pc' = "directed edges"
    /\ UNCHANGED <<reversible, coefficient, source_df, sinks_df, edge_weight_df, graph,
                   verbose>>
    /\ UNCHANGED loadVars
    /\ UNCHANGED fileVars
    /\ UNCHANGED mainVars
    /\ UNCHANGED geneVars
    /\ UNCHANGED fbaVars
    /\ UNCHANGED koVars

NextVerbose == FindEdges \/ FindDirectedEdges

SpecVerbose == InitVerbose /\ [][NextVerbose]_vars

\* C29 (as claimed): find_edges_from_model and find_directed_edges_from_model end with
\* verbose as they end without it, with the same edge list, and every progress bar that
\* a verbose call advanced has printed its completion message once when the call returns.
C29_VerboseOnlyPrints ==
    /\ pc = "edges" =>
          /\ raised = FindEdgesFromModel(FALSE).raised
          /\ edge_list = FindEdgesFromModel(FALSE).edge_list
    /\ pc = "directed edges" =>
          /\ raised = FindDirectedEdgesFromModel(fva_results, reciprocal_weight).raised
          /\ edge_list = FindDirectedEdgesFromModel(fva_results, reciprocal_weight).edge_list
    /\ (pc \in {"edges", "directed edges"} /\ verbose /\ raised = "none") =>
          \A i \in 1..Len(bars) : bars[i].progress > 0 => bars[i].finished = 1

----------------------------------------------------------------------------
(* The two implementations of the directed construction *)

InitMn ==
    /\ reversible \in [RxnIds -> BOOLEAN]
    /\ coefficient \in [RxnIds -> [MetIds -> UnitCoefficients]]
    /\ fva_results = NoFva
    /\ pc = "start"
    /\ reciprocal_weight = TRUE
    /\ source_df = NoFrames
    /\ sinks_df = NoFrames
    /\ edge_weight_df = <<>>
    /\ edge_list = <<>>
    /\ raised = "none"
    /\ graph = NoGraph
    /\ InitLoadIdle
    /\ InitFileIdle
    /\ InitMainIdle
    /\ InitGenesIdle
    /\ InitFbaIdle
    /\ InitKoIdle
    /\ InitVerboseIdle

\* metabolic_network.find_directed_edges_from_model(model, reciprocal_weight)
MnFindDirectedEdges ==
    /\ pc = "start"
    /\ \E recip \in BOOLEAN, fva \in [RxnIds -> FluxRows] :
        \E found \in {MnFindDirectedEdgesFromModel(fva, recip)} :
            /\ fva_results' = fva
            /\ reciprocal_weight' = recip
            /\ raised' = found.raised
            /\ edge_list' = found.edge_list
    /\ pc' = "mn directed edges"
    /\ UNCHANGED <<reversible, coefficient, source_df, sinks_df, edge_weight_df, graph>>
    /\ UNCHANGED loadVars
    /\ UNCHANGED fileVars
    /\ UNCHANGED mainVars
    /\ UNCHANGED geneVars
    /\ UNCHANGED fbaVars
    /\ UNCHANGED koVars
    /\ UNCHANGED verboseVars

NextMn == MnFindDirectedEdges

SpecMn == InitMn /\ [][NextMn]_vars

\* C30 (as claimed): for every model, flux variability analysis and setting of
\* reciprocal_weight, find_directed_edges_from_model of metabolic_network.py ends as
\* that of reaction_network.py does and returns the same edge list.
C30_SameEdgeList ==
    pc = "mn directed edges" =>
        /\ raised = FindDirectedEdgesFromModel(fva_results, reciprocal_weight).raised
        /\ edge_list = FindDirectedEdgesFromModel(fva_results, reciprocal_weight).edge_list

====
